---- MODULE Spec2Model ----
(***************************************************************************)
(* RockExport: the rule-based rock classifier of the identify-rock edge    *)
(* function (extractor, classifier, enrichment), the chat front-end that   *)
(* answers questions about the identified rock, and the request handlers   *)
(* of the identify-rock, geological-data and rock-chatbot edge functions.  *)
(*                                                                         *)
(* Text is modelled as TLA+ strings; regular expressions are modelled by   *)
(* what they match (substring search, with ".*" not crossing a newline).   *)
(***************************************************************************)
EXTENDS Integers, Sequences, FiniteSets, TLC

VARIABLES
    pc,               \* position of the identify-rock request: start, parsed, classified, enhanced
    request,          \* the parsed request body { description?, imageAnalysis? }
    characteristics,  \* result of parseCharacteristics
    identification,   \* result of classifyRock
    wiki,             \* outcome of the one Wikipedia summary request of enhanceRockData
    enhanced,         \* result of enhanceRockData
    chatPc,           \* position of the chat front-end: idle, answered
    rockData,         \* the RockData the chat component was opened with
    question,         \* the user's question
    invoke,           \* outcome of supabase.functions.invoke('geological-data')
    answer,           \* [by |-> generator, text |-> answer] returned by getGeologistResponse
    httpPc,           \* position of an edge-function request: off, received, joining, responded
    httpBody,         \* the body of that request as it arrived
    upstream,         \* outcomes of the requests the handler sends upstream
    lookups,          \* results of the lookups fetchGeneralGeologicalData has started
    httpResponse,     \* the Response returned: [status, body]
    calls,            \* concurrent identify-rock requests, each with its own locals
    appState,         \* Index page: 'upload', 'results' or 'chat'
    currentRock,      \* Index page: the RockData shown, or null
    isAnalyzing,      \* Index page: an analysis is running
    analysis,         \* the running call of the page's identifyRock: its locals and position
    chatComponent,    \* the chat component mounted: GeologistChat or RockChatbot
    messages,         \* chat component: the transcript
    currentMessage,   \* chat component: the text of the input
    isTyping,         \* chat component: a reply is awaited
    sending           \* the running call of handleSendMessage: the text it was called with

httpVars == <<httpPc, httpBody, upstream, lookups, httpResponse, calls>>

pipelineVars == <<pc, request, characteristics, identification, wiki, enhanced>>

chatVars == <<chatPc, rockData, question, invoke, answer>>

pageVars == <<appState, currentRock, isAnalyzing, analysis>>

transcriptVars == <<chatComponent, messages, currentMessage, isTyping, sending>>

uiVars == <<appState, currentRock, isAnalyzing, analysis,
            chatComponent, messages, currentMessage, isTyping, sending>>

vars == <<pc, request, characteristics, identification, wiki, enhanced,
          chatPc, rockData, question, invoke, answer,
          httpPc, httpBody, upstream, lookups, httpResponse, calls,
          appState, currentRock, isAnalyzing, analysis,
          chatComponent, messages, currentMessage, isTyping, sending>>

\* Largest number of vocabulary words in an enumerated description.
MaxWords == 2

\* Largest number of keywords when classifyRock's input is enumerated directly.
MaxKeywords == 1

None == [none |-> TRUE]

(***************************************************************************)
(* String helpers: what String.prototype.match / split / join /            *)
(* toLowerCase / includes do on the texts of the model.                    *)
(***************************************************************************)

CharAt(t, i) == SubSeq(t, i, i)

\* String.prototype.includes, and a regex of one literal.
Contains(t, p) ==
    \E i \in 1..(Len(t) - Len(p) + 1) : SubSeq(t, i, i + Len(p) - 1) = p

\* /a.*b/ : a, then any characters except a line terminator, then b.
ContainsThen(t, a, b) ==
    \E i \in 1..(Len(t) - Len(a) + 1) :
        /\ SubSeq(t, i, i + Len(a) - 1) = a
        /\ \E j \in (i + Len(a))..(Len(t) - Len(b) + 1) :
              /\ SubSeq(t, j, j + Len(b) - 1) = b
              /\ \A k \in (i + Len(a))..(j - 1) : CharAt(t, k) # "\n"

\* One alternative of a regex: <<lit>> or <<a, b>> for a.*b.
MatchAlt(t, alt) ==
    IF Len(alt) = 1 THEN Contains(t, alt[1]) ELSE ContainsThen(t, alt[1], alt[2])

\* desc.match(/alt1|alt2|.../) is truthy.
Matches(t, alts) == \E alt \in alts : MatchAlt(t, alt)

UpperToLower ==
    [c \in {"A", "B", "C", "D", "E", "F", "G", "H", "I", "J", "K", "L", "M", "N",
            "O", "P", "Q", "R", "S", "T", "U", "V", "W", "X", "Y", "Z"} |->
        CASE c = "A" -> "a" [] c = "B" -> "b" [] c = "C" -> "c" [] c = "D" -> "d"
          [] c = "E" -> "e" [] c = "F" -> "f" [] c = "G" -> "g" [] c = "H" -> "h"
          [] c = "I" -> "i" [] c = "J" -> "j" [] c = "K" -> "k" [] c = "L" -> "l"
          [] c = "M" -> "m" [] c = "N" -> "n" [] c = "O" -> "o" [] c = "P" -> "p"
          [] c = "Q" -> "q" [] c = "R" -> "r" [] c = "S" -> "s" [] c = "T" -> "t"
          [] c = "U" -> "u" [] c = "V" -> "v" [] c = "W" -> "w" [] c = "X" -> "x"
          [] c = "Y" -> "y" [] c = "Z" -> "z"]

RECURSIVE LowerFrom(_, _)
LowerFrom(t, i) ==
    IF i > Len(t) THEN ""
    ELSE LET c == CharAt(t, i)
         IN  (IF c \in DOMAIN UpperToLower THEN UpperToLower[c] ELSE c)
                \o LowerFrom(t, i + 1)

\* String.prototype.toLowerCase
ToLowerCase(t) == LowerFrom(t, 1)

\* \s of the regex /\s+/
IsSpace(c) == c \in {" ", "\n", "\t"}

RECURSIVE SkipSpaces(_, _)
SkipSpaces(t, i) ==
    IF i <= Len(t) /\ IsSpace(CharAt(t, i)) THEN SkipSpaces(t, i + 1) ELSE i

RECURSIVE SplitFrom(_, _, _, _)
SplitFrom(t, i, cur, acc) ==
    IF i > Len(t) THEN Append(acc, cur)
    ELSE IF IsSpace(CharAt(t, i))
         THEN SplitFrom(t, SkipSpaces(t, i), "", Append(acc, cur))
         ELSE SplitFrom(t, i + 1, cur \o CharAt(t, i), acc)

\* desc.split(/\s+/): leading or trailing whitespace yields an empty token.
SplitWhitespace(t) == SplitFrom(t, 1, "", <<>>)

RECURSIVE JoinFrom(_, _, _)
JoinFrom(ks, sep, i) ==
    IF i > Len(ks) THEN ""
    ELSE IF i = Len(ks) THEN ks[i]
    ELSE ks[i] \o sep \o JoinFrom(ks, sep, i + 1)

\* Array.prototype.join
Join(ks, sep) == JoinFrom(ks, sep, 1)

\* JavaScript truthiness of a string: only "" is falsy.
TruthyString(s) == s # ""

\* JavaScript truthiness of an array: every array is truthy, the empty one too.
TruthyArray(a) == TRUE

(***************************************************************************)
(* Characteristic Extractor: parseCharacteristics.                         *)
(* Each dimension is a list of (regex, label) rules applied in order by    *)
(* independent if-statements, each overwriting the dimension.              *)
(***************************************************************************)

L(lit) == <<lit>>

TextureRules == <<
    [alts |-> {L("coarse"), L("rough"), L("bumpy"), L("granular"), L("grainy")}, label |-> "coarse"],
    [alts |-> {L("fine"), L("smooth"), L("silky"), L("powdery")}, label |-> "fine"],
    [alts |-> {L("glassy"), L("glass"), L("shiny"), L("reflective")}, label |-> "glassy"],
    [alts |-> {L("porous"), L("holes"), L("bubbles"), L("foam"), L("vesicular"), L("pumice")}, label |-> "vesicular"],
    [alts |-> {L("layered"), L("layers"), L("banded"), L("striped"), L("sediment")}, label |-> "layered"],
    [alts |-> {L("foliated"), L("flaky"), L("scaly"), L("sheet")}, label |-> "foliated"],
    [alts |-> {L("crystalline"), L("crystal"), L("sparkl")}, label |-> "crystalline"] >>

ColorRules == <<
    [alts |-> {L("dark"), L("black"), L("charcoal"), L("deep")}, label |-> "dark"],
    [alts |-> {L("light"), L("white"), L("pale"), L("cream"), L("beige")}, label |-> "light"],
    [alts |-> {L("red"), L("pink"), L("reddish"), L("rust"), L("brick")}, label |-> "red"],
    [alts |-> {L("green"), L("olive"), L("emerald")}, label |-> "green"],
    [alts |-> {L("gray"), L("grey"), L("silver")}, label |-> "gray"],
    [alts |-> {L("brown"), L("tan"), L("beige"), L("chocolate")}, label |-> "brown"],
    [alts |-> {L("yellow"), L("golden"), L("amber")}, label |-> "yellow"],
    [alts |-> {L("blue"), L("azure")}, label |-> "blue"] >>

HardnessRules == <<
    [alts |-> {L("hard"), <<"difficult", "scratch">>, <<"difficult", "break">>, L("tough"), L("solid")}, label |-> "hard"],
    [alts |-> {L("soft"), <<"easy", "scratch">>, <<"easy", "break">>, L("crumbl"), L("chalk")}, label |-> "soft"],
    [alts |-> {L("medium"), L("moderate")}, label |-> "medium"] >>

LusterRules == <<
    [alts |-> {L("shiny"), L("metallic"), L("mirror"), L("reflective")}, label |-> "metallic"],
    [alts |-> {L("dull"), L("earthy"), L("matte"), L("chalky")}, label |-> "dull"],
    [alts |-> {L("glassy"), L("vitreous"), L("glass")}, label |-> "vitreous"],
    [alts |-> {L("pearly"), L("silk")}, label |-> "pearly"] >>

CrystalSizeRules == <<
    [alts |-> {<<"large", "crystal">>, <<"large", "grain">>, L("coarse")}, label |-> "large"],
    [alts |-> {<<"small", "crystal">>, <<"small", "grain">>, L("fine")}, label |-> "small"],
    [alts |-> {<<"no", "crystal">>, L("glass")}, label |-> "none"] >>

Dimensions == {"texture", "color", "hardness", "luster", "crystalSize"}

RulesOf(dim) ==
    CASE dim = "texture" -> TextureRules
      [] dim = "color" -> ColorRules
      [] dim = "hardness" -> HardnessRules
      [] dim = "luster" -> LusterRules
      [] dim = "crystalSize" -> CrystalSizeRules

RECURSIVE ApplyFrom(_, _, _, _)
ApplyFrom(desc, rules, i, cur) ==
    IF i > Len(rules) THEN cur
    ELSE ApplyFrom(desc, rules, i + 1,
                   IF Matches(desc, rules[i].alts) THEN rules[i].label ELSE cur)

RECURSIVE FirstFrom(_, _, _)
FirstFrom(desc, rules, i) ==
    IF i > Len(rules) THEN "unknown"
    ELSE IF Matches(desc, rules[i].alts) THEN rules[i].label
    ELSE FirstFrom(desc, rules, i + 1)

\* Mutant: the first matching rule decides (an else-if chain).
ApplyRules_FirstWins(desc, rules) == FirstFrom(desc, rules, 1)

\* The if-statements of one dimension, run in declaration order from 'unknown'.
ApplyRules(desc, rules) == ApplyFrom(desc, rules, 1, "unknown")

UnknownCharacteristics ==
    [texture |-> "unknown", color |-> "unknown", hardness |-> "unknown",
     luster |-> "unknown", crystalSize |-> "unknown", keywords |-> <<>>]

\* Mutant: the description is used whenever it is present, the empty one too.
HasDescription_Defined(req) == "description" \in DOMAIN req

\* if (description): present and not the empty string.
HasDescription(req) ==
    "description" \in DOMAIN req /\ TruthyString(req.description)

\* imageAnalysis?.colors is truthy (colors is an array when present).
HasImageColors(req) ==
    "imageAnalysis" \in DOMAIN req /\ TruthyArray(req.imageAnalysis.colors)

ParseDescription(req) ==
    IF HasDescription(req)
    THEN LET desc == ToLowerCase(req.description)
         IN  [texture |-> ApplyRules(desc, TextureRules),
              color |-> ApplyRules(desc, ColorRules),
              hardness |-> ApplyRules(desc, HardnessRules),
              luster |-> ApplyRules(desc, LusterRules),
              crystalSize |-> ApplyRules(desc, CrystalSizeRules),
              keywords |-> SplitWhitespace(desc)]
    ELSE UnknownCharacteristics

\* Mutant: the texture hint of the image analysis fills in an unknown texture.
parseCharacteristics_UsesHints(req) ==
    LET c == ParseDescription(req)
    IN  IF "imageAnalysis" \in DOMAIN req
        THEN [c EXCEPT !.texture = IF @ = "unknown" THEN req.imageAnalysis.texture ELSE @]
                @@ [dominantColors |-> req.imageAnalysis.colors]
        ELSE c

parseCharacteristics(req) ==
    IF HasImageColors(req)
    THEN ParseDescription(req) @@ [dominantColors |-> req.imageAnalysis.colors]
    ELSE ParseDescription(req)

(***************************************************************************)
(* Classifier: classifyRock, an ordered list of rules.  Each rule yields   *)
(* <<rock>> when it returns and <<>> when control falls through to the     *)
(* next statement.                                                         *)
(***************************************************************************)

createRockData(name, type, confidence, formation, subtype, textureType) ==
    [name |-> name, type |-> type, confidence |-> confidence,
     formation |-> formation, subtype |-> subtype, textureType |-> textureType]

GraniteFormation == "Formed from slow cooling of felsic magma deep within the Earth's crust"
BasaltFormation == "Formed from rapid cooling of mafic lava flows on the Earth's surface"
LimestoneFormation == "Formed from accumulation of marine organisms and chemical precipitation in warm, shallow seas"
SandstoneFormation == "Formed from cementation of sand-sized mineral particles, primarily quartz"
MarbleFormation == "Formed from metamorphism of limestone or dolomite under heat and pressure"
SlateFormation == "Formed from low-grade metamorphism of shale or mudstone"
QuartziteFormation == "Formed from metamorphism of sandstone under high pressure and temperature"
ObsidianFormation == "Formed from rapid cooling of volcanic glass, preventing crystal formation"
PumiceFormation == "Formed from gas-filled volcanic eruptions that create a frothy, lightweight rock"
ScoriaFormation == "Formed from basaltic or andesitic magma during Strombolian eruptions"
GabbroFormation == "Formed from slow cooling of mafic magma deep within the Earth's crust"
ShaleFormation == "Formed from compaction of clay and silt particles in quiet water environments"
SchistFormation == "Formed from medium-grade metamorphism of shale or other fine-grained rocks"
InconclusiveFormation == "Common igneous rock formed from cooling magma - identification needs more specific details"

Granite(conf) == createRockData("Granite", "igneous", conf, GraniteFormation, "plutonic", "phaneritic")
Basalt(conf) == createRockData("Basalt", "igneous", conf, BasaltFormation, "volcanic", "aphanitic")
Limestone(conf) == createRockData("Limestone", "sedimentary", conf, LimestoneFormation, "chemical", "crystalline")
Sandstone(conf) == createRockData("Sandstone", "sedimentary", conf, SandstoneFormation, "clastic", "medium-grained")
Marble(conf) == createRockData("Marble", "metamorphic", conf, MarbleFormation, "non-foliated", "crystalline")
Slate(conf) == createRockData("Slate", "metamorphic", conf, SlateFormation, "foliated", "fine-grained")
Quartzite(conf) == createRockData("Quartzite", "metamorphic", conf, QuartziteFormation, "non-foliated", "granoblastic")
Obsidian(conf) == createRockData("Obsidian", "igneous", conf, ObsidianFormation, "volcanic", "glassy")
Pumice(conf) == createRockData("Pumice", "igneous", conf, PumiceFormation, "volcanic", "vesicular")
Scoria(conf) == createRockData("Scoria", "igneous", conf, ScoriaFormation, "volcanic", "vesicular")
Gabbro(conf) == createRockData("Gabbro", "igneous", conf, GabbroFormation, "plutonic", "phaneritic")
Shale(conf) == createRockData("Shale", "sedimentary", conf, ShaleFormation, "clastic", "fine-grained")
Schist(conf) == createRockData("Schist", "metamorphic", conf, SchistFormation, "foliated", "schistose")

\* Direct rock name mentions: keywordString.match(/.../) in this order.
Tier1Rules == <<
    [alts |-> {L("granite")}, rock |-> Granite(88)],
    [alts |-> {L("basalt")}, rock |-> Basalt(85)],
    [alts |-> {L("limestone"), L("lime")}, rock |-> Limestone(82)],
    [alts |-> {L("sandstone"), L("sand")}, rock |-> Sandstone(80)],
    [alts |-> {L("marble")}, rock |-> Marble(85)],
    [alts |-> {L("slate")}, rock |-> Slate(83)],
    [alts |-> {L("quartzite"), L("quartz")}, rock |-> Quartzite(81)],
    [alts |-> {L("obsidian")}, rock |-> Obsidian(90)],
    [alts |-> {L("pumice")}, rock |-> Pumice(87)] >>

RECURSIVE Tier1From(_, _)
Tier1From(keywordString, i) ==
    IF i > Len(Tier1Rules) THEN <<>>
    ELSE IF Matches(keywordString, Tier1Rules[i].alts) THEN <<Tier1Rules[i].rock>>
    ELSE Tier1From(keywordString, i + 1)

RECURSIVE Tier1Down(_, _)
Tier1Down(keywordString, i) ==
    IF i < 1 THEN <<>>
    ELSE IF Matches(keywordString, Tier1Rules[i].alts) THEN <<Tier1Rules[i].rock>>
    ELSE Tier1Down(keywordString, i - 1)

\* Mutant: the rock-name checks are made in the reverse order.
Tier1Rule_Reversed(keywordString) == Tier1Down(keywordString, Len(Tier1Rules))

Tier1Rule(keywordString) == Tier1From(keywordString, 1)

GlassyRule(c) ==
    IF c.texture = "glassy" THEN <<Obsidian(85)>> ELSE <<>>

\* Mutant: the colour test of the vesicular rule asks for 'dark' instead of 'light'.
VesicularRule_DarkTest(c) ==
    IF c.texture = "vesicular" \/ c.texture = "porous"
    THEN IF c.color = "dark" THEN <<Scoria(75)>> ELSE <<Pumice(80)>>
    ELSE <<>>

VesicularRule(c) ==
    IF c.texture = "vesicular" \/ c.texture = "porous"
    THEN IF c.color = "light" THEN <<Pumice(80)>> ELSE <<Scoria(75)>>
    ELSE <<>>

\* No final else: any other colour falls through to the later rules.
CoarseRule(c) ==
    IF c.texture = "coarse" \/ c.crystalSize = "large"
    THEN IF c.color = "light" \/ c.color = "gray" THEN <<Granite(82)>>
         ELSE IF c.color = "dark" THEN <<Gabbro(78)>>
         ELSE <<>>
    ELSE <<>>

FineDarkRule(c) ==
    IF c.texture = "fine" /\ (c.color = "dark" \/ c.color = "black")
    THEN <<Basalt(78)>> ELSE <<>>

LayeredRule(c, keywordString) ==
    IF c.texture = "layered" \/ Matches(keywordString, {L("layer"), L("bed"), L("strat")})
    THEN IF c.hardness = "soft" \/ Matches(keywordString, {L("clay"), L("mud")})
         THEN <<Shale(75)>> ELSE <<Sandstone(72)>>
    ELSE <<>>

SoftLightRule(c) ==
    IF c.hardness = "soft" /\ (c.color = "light" \/ c.color = "white")
    THEN <<Limestone(75)>> ELSE <<>>

SandGrainRule(c, keywordString) ==
    IF Matches(keywordString, {L("sand"), L("grain")}) \/ c.texture = "coarse"
    THEN <<Sandstone(72)>> ELSE <<>>

FoliatedRule(c, keywordString) ==
    IF c.texture = "foliated" \/ Matches(keywordString, {L("flaky"), L("sheet"), L("split")})
    THEN IF c.hardness = "soft" THEN <<Slate(70)>> ELSE <<Schist(68)>>
    ELSE <<>>

CrystallineRule(c) ==
    IF c.texture = "crystalline" \/ c.luster = "vitreous"
    THEN IF c.color = "light" \/ c.color = "white" THEN <<Marble(76)>> ELSE <<Quartzite(74)>>
    ELSE <<>>

DarkFallback(c) ==
    IF c.color = "dark" \/ c.color = "black" THEN <<Basalt(65)>> ELSE <<>>

\* Mutant: the light fallback raises its confidence for a hard rock.
LightFallback_Boosted(c) ==
    IF c.color = "light" \/ c.color = "gray"
    THEN <<Granite(IF c.hardness = "hard" THEN 70 ELSE 65)>> ELSE <<>>

LightFallback(c) ==
    IF c.color = "light" \/ c.color = "gray" THEN <<Granite(65)>> ELSE <<>>

SoftFallback(c) ==
    IF c.hardness = "soft" THEN <<Limestone(60)>> ELSE <<>>

\* Mutant: the final fallback of the earlier version of the function.
FinalFallback_Unknown ==
    createRockData("Unknown Rock", "igneous", 30,
                   "Unable to determine formation process from available characteristics",
                   "unknown", "unknown")

FinalFallback ==
    createRockData("Granite", "igneous", 55, InconclusiveFormation, "plutonic", "phaneritic")

\* const keywordString = (characteristics.keywords || []).join(' ')
KeywordString(c) == Join(c.keywords, " ")

\* Mutant: the characteristic rules are tried before the rock-name mentions.
RuleResults_NamesLast(c) ==
    LET ks == KeywordString(c)
    IN  GlassyRule(c) \o VesicularRule(c) \o CoarseRule(c) \o FineDarkRule(c)
        \o LayeredRule(c, ks) \o SoftLightRule(c) \o SandGrainRule(c, ks)
        \o FoliatedRule(c, ks) \o CrystallineRule(c)
        \o Tier1Rule(ks)
        \o DarkFallback(c) \o LightFallback(c) \o SoftFallback(c) \o <<FinalFallback>>

\* Mutant: the coarse rule is tried before the glassy and vesicular rules.
RuleResults_CoarseFirst(c) ==
    LET ks == KeywordString(c)
    IN  Tier1Rule(ks)
        \o CoarseRule(c) \o GlassyRule(c) \o VesicularRule(c) \o FineDarkRule(c)
        \o LayeredRule(c, ks) \o SoftLightRule(c) \o SandGrainRule(c, ks)
        \o FoliatedRule(c, ks) \o CrystallineRule(c)
        \o DarkFallback(c) \o LightFallback(c) \o SoftFallback(c) \o <<FinalFallback>>

\* Mutant: the fine+dark rule is tried before the coarse rule.
RuleResults_FineDarkFirst(c) ==
    LET ks == KeywordString(c)
    IN  Tier1Rule(ks)
        \o GlassyRule(c) \o VesicularRule(c) \o FineDarkRule(c) \o CoarseRule(c)
        \o LayeredRule(c, ks) \o SoftLightRule(c) \o SandGrainRule(c, ks)
        \o FoliatedRule(c, ks) \o CrystallineRule(c)
        \o DarkFallback(c) \o LightFallback(c) \o SoftFallback(c) \o <<FinalFallback>>

\* What each statement of classifyRock would return, in program order.
RuleResults(c) ==
    LET ks == KeywordString(c)
    IN  Tier1Rule(ks)
        \o GlassyRule(c) \o VesicularRule(c) \o CoarseRule(c) \o FineDarkRule(c)
        \o LayeredRule(c, ks) \o SoftLightRule(c) \o SandGrainRule(c, ks)
        \o FoliatedRule(c, ks) \o CrystallineRule(c)
        \o DarkFallback(c) \o LightFallback(c) \o SoftFallback(c) \o <<FinalFallback>>

\* The first return statement reached.
classifyRock(c) == Head(RuleResults(c))

(***************************************************************************)
(* Enrichment Stage: enhanceRockData and the static reference tables.      *)
(***************************************************************************)

\* JavaScript's undefined and null, where a string is expected.
Undefined == "<undefined>"
Null == "<null>"

\* a || b for an array a.
OrArray(a, b) == IF TruthyArray(a) THEN a ELSE b

\* Outcomes of fetch(`${WIKIPEDIA_API_BASE_URL}/page/summary/...`): a 2xx reply
\* with or without an extract and a thumbnail, a non-2xx reply, a network error.
WikiExtracts == {"Volcanic glass formed by rapid cooling."}
WikiThumbnails == {"https://upload.wikimedia.org/thumb.jpg"}

WikiOutcomes ==
    [kind : {"ok"}, extract : WikiExtracts \cup {"", Undefined},
     thumbnail : WikiThumbnails \cup {Undefined}]
    \cup {[kind |-> "non2xx"], [kind |-> "throws"]}

\* data.extract || fallback
OrExtract(extract, fallback) ==
    IF extract # Undefined /\ TruthyString(extract) THEN extract ELSE fallback

\* Mutant: the extract is used as it came, without the templated sentence.
fetchWikipediaData_RawExtract(rockName, outcome) ==
    IF outcome.kind = "ok"
    THEN [funFacts |-> <<outcome.extract>>, image |-> outcome.thumbnail]
    ELSE [funFacts |-> <<>>, image |-> Null]

fetchWikipediaData(rockName, outcome) ==
    IF outcome.kind = "ok"
    THEN [funFacts |-> <<OrExtract(outcome.extract,
                          rockName \o " is a type of rock with unique geological properties.")>>,
          image |-> outcome.thumbnail]
    ELSE [funFacts |-> <<>>, image |-> Null]

fetchLocationData(rockName) == [locations |-> <<>>]

locationMap ==
    [igneous |-> <<"Volcanic regions", "Mountain ranges", "Oceanic islands", "Continental margins">>,
     sedimentary |-> <<"River valleys", "Ocean floors", "Desert basins", "Coastal plains">>,
     metamorphic |-> <<"Mountain cores", "Continental shields", "Collision zones", "Deep crustal regions">>]

getDefaultLocations(rockType) ==
    IF rockType \in DOMAIN locationMap THEN locationMap[rockType]
    ELSE <<"Worldwide distribution">>

compositionMap ==
    [Granite |-> <<"Quartz (25-35%)", "Feldspar (50-60%)", "Mica (5-15%)", "Hornblende">>,
     Basalt |-> <<"Plagioclase feldspar", "Pyroxene", "Olivine", "Magnetite">>,
     Limestone |-> <<"Calcite (CaCO3)", "Aragonite", "Dolomite", "Fossil fragments">>,
     Sandstone |-> <<"Quartz (dominant)", "Feldspar", "Rock fragments", "Clay minerals">>,
     Shale |-> <<"Clay minerals", "Quartz", "Feldspar", "Organic matter">>,
     Schist |-> <<"Mica", "Quartz", "Feldspar", "Garnet", "Staurolite">>,
     Quartzite |-> <<"Quartz (>95%)", "Minor feldspar", "Mica traces">>,
     Obsidian |-> <<"Volcanic glass", "Silica (70-75%)", "Minimal crystals">>,
     Pumice |-> <<"Volcanic glass", "Silica", "Gas bubbles (vesicles)">>,
     Scoria |-> <<"Basaltic glass", "Pyroxene", "Plagioclase", "Olivine">>]

getComposition(rockName) ==
    IF rockName \in DOMAIN compositionMap THEN compositionMap[rockName]
    ELSE <<"Mineral composition varies">>

usesMap ==
    [Granite |-> <<"Construction material", "Countertops", "Monuments", "Road aggregate">>,
     Basalt |-> <<"Road construction", "Railroad ballast", "Concrete aggregate", "Stone tools">>,
     Limestone |-> <<"Cement production", "Building stone", "Agricultural lime", "Steel production">>,
     Sandstone |-> <<"Building stone", "Paving material", "Glass manufacturing", "Filtration">>,
     Shale |-> <<"Brick manufacturing", "Ceramic production", "Oil and gas extraction">>,
     Schist |-> <<"Roofing material", "Decorative stone", "Road construction">>,
     Quartzite |-> <<"Construction aggregate", "Railroad ballast", "Roofing granules">>,
     Obsidian |-> <<"Surgical instruments", "Decorative objects", "Archaeological tools">>,
     Pumice |-> <<"Abrasive material", "Concrete aggregate", "Horticulture", "Personal care">>,
     Scoria |-> <<"Landscaping", "Construction aggregate", "Drainage material">>]

getUses(rockName) ==
    IF rockName \in DOMAIN usesMap THEN usesMap[rockName]
    ELSE <<"Various industrial and construction applications">>

classificationMap ==
    [Granite |-> [group |-> "Felsic Intrusive", family |-> "Granitoid", series |-> "Alkali Feldspar"],
     Basalt |-> [group |-> "Mafic Extrusive", family |-> "Basaltic", series |-> "Tholeiitic"],
     Limestone |-> [group |-> "Carbonate", family |-> "Calcitic"],
     Sandstone |-> [group |-> "Clastic", family |-> "Arenaceous"],
     Shale |-> [group |-> "Clastic", family |-> "Argillaceous"],
     Schist |-> [group |-> "Foliated", family |-> "Regional Metamorphic"],
     Quartzite |-> [group |-> "Non-foliated", family |-> "Contact Metamorphic"]]

\* Mutant: the generic group does not carry the rock type.
getClassification_Untyped(rockName, rockType) ==
    IF rockName \in DOMAIN classificationMap THEN classificationMap[rockName]
    ELSE [group |-> "unclassified rock"]

getClassification(rockName, rockType) ==
    IF rockName \in DOMAIN classificationMap THEN classificationMap[rockName]
    ELSE [group |-> rockType \o " rock"]

funFactsMap ==
    [Granite |-> <<"Granite makes up about 70-80% of the Earth's continental crust",
                   "The word \"granite\" comes from the Latin \"granum\" meaning grain",
                   "Some granite formations are over 3 billion years old">>,
     Basalt |-> <<"Basalt covers about 70% of the Earth's surface, mostly on ocean floors",
                  "The dark side of the Moon is primarily basaltic rock",
                  "Basalt can form hexagonal columns when cooling slowly">>,
     Limestone |-> <<"The Great Pyramid of Giza is built primarily from limestone blocks",
                     "Limestone can contain fossils of ancient marine life",
                     "Acid rain can dissolve limestone, forming caves and sinkholes">>]

getDefaultFunFacts(rockName) ==
    IF rockName \in DOMAIN funFactsMap THEN funFactsMap[rockName]
    ELSE <<rockName \o " has unique geological properties that make it scientifically interesting.">>

\* Mutant: formation and subtype are rewritten from the reference tables.
enhanceRockData_Rewrites(basicData, wikiOutcome) ==
    LET wikipediaData == fetchWikipediaData(basicData.name, wikiOutcome)
    IN  [name |-> basicData.name, type |-> basicData.type,
         confidence |-> basicData.confidence,
         formation |-> getDefaultFunFacts(basicData.name)[1],
         subtype |-> getClassification(basicData.name, basicData.type).group,
         textureType |-> basicData.textureType,
         locations |-> OrArray(<<>>, getDefaultLocations(basicData.type)),
         composition |-> getComposition(basicData.name),
         uses |-> getUses(basicData.name),
         classification |-> getClassification(basicData.name, basicData.type),
         funFacts |-> OrArray(wikipediaData.funFacts, getDefaultFunFacts(basicData.name)),
         image |-> wikipediaData.image]

\* The try block of enhanceRockData.  Neither awaited function can reject
\* (fetchWikipediaData catches every error of its request), so the catch
\* block is never entered.
enhanceRockData(basicData, wikiOutcome) ==
    LET wikipediaData == fetchWikipediaData(basicData.name, wikiOutcome)
        locationData == fetchLocationData(basicData.name)
    IN  [locations |-> OrArray(locationData.locations, getDefaultLocations(basicData.type)),
         composition |-> getComposition(basicData.name),
         uses |-> getUses(basicData.name),
         classification |-> getClassification(basicData.name, basicData.type),
         funFacts |-> OrArray(wikipediaData.funFacts, getDefaultFunFacts(basicData.name)),
         image |-> wikipediaData.image]
        @@ basicData

(***************************************************************************)
(* The geological-data edge function.                                      *)
(***************************************************************************)

\* obj.field of a parsed JSON object: undefined when the field is missing.
Get(obj, field) == IF field \in DOMAIN obj THEN obj[field] ELSE Undefined

\* The fields of the replies that can hold undefined.
OptionalFields == {"image", "lastModified", "pageUrl"}

\* JSON.stringify followed by JSON.parse: fields holding undefined are dropped.
JsonRoundTrip(obj) ==
    [f \in {g \in DOMAIN obj : ~(g \in OptionalFields /\ obj[g] = Undefined)} |-> obj[f]]

SciencePageUrls == {"https://en.wikipedia.org/wiki/Rock"}

\* Outcomes of the /page/summary request of fetchScientificData.
SummaryOutcomes ==
    [kind : {"ok"}, extract : WikiExtracts, extract_html : {"<p>Volcanic glass.</p>"},
     thumbnail : WikiThumbnails \cup {Undefined}, timestamp : {"2024-01-01T00:00:00Z"},
     pageUrl : SciencePageUrls]
    \cup {[kind |-> "ok", extract |-> Undefined, extract_html |-> Undefined,
           thumbnail |-> Undefined, timestamp |-> Undefined, pageUrl |-> Undefined],
          [kind |-> "non2xx"], [kind |-> "throws"]}

RelatedPages ==
    {<<>>, <<[title |-> "Lava", description |-> "Molten rock",
              url |-> "https://en.wikipedia.org/wiki/Lava"]>>}

\* Outcomes of the /page/related request of fetchScientificData.
RelatedOutcomes ==
    [kind : {"ok"}, pages : RelatedPages] \cup {[kind |-> "non2xx"], [kind |-> "throws"]}

\* wikiData?.field, wikiData being null unless the reply was 2xx.
WikiField(summary, field) == IF summary.kind = "ok" THEN summary[field] ELSE Undefined

fetchScientificData(rockName, rockType, summary, related) ==
    IF summary.kind = "throws" \/ related.kind = "throws"
    THEN [summary |-> rockName \o " is a " \o rockType \o " rock.",
          relatedTopics |-> <<>>]
    ELSE [summary |-> OrExtract(WikiField(summary, "extract"),
                        rockName \o " is a " \o rockType
                            \o " rock with unique geological characteristics."),
          fullText |-> IF WikiField(summary, "extract_html") = Undefined THEN ""
                       ELSE WikiField(summary, "extract_html"),
          image |-> WikiField(summary, "thumbnail"),
          relatedTopics |-> IF related.kind = "ok"
                            THEN SubSeq(related.pages, 1,
                                        IF Len(related.pages) < 5 THEN Len(related.pages) ELSE 5)
                            ELSE <<>>,
          lastModified |-> WikiField(summary, "timestamp"),
          pageUrl |-> WikiField(summary, "pageUrl")]

\* Outcomes of the GeoNames search of fetchGeologicalFeatures.
FeatureOutcomes ==
    {[kind |-> "ok", geonames |-> <<[name |-> "Granite Peak", countryName |-> "United States",
                                     lat |-> "45.16", lng |-> "-109.80", fclName |-> "mountain"]>>],
     [kind |-> "ok", geonames |-> <<>>],
     [kind |-> "non2xx"], [kind |-> "throws"]}

fetchGeologicalFeatures(rockName, features) ==
    IF features.kind = "ok"
    THEN [features |-> features.geonames,
          locations |-> [i \in DOMAIN features.geonames |->
                            [name |-> features.geonames[i].name,
                             country |-> features.geonames[i].countryName,
                             coordinates |-> <<features.geonames[i].lat, features.geonames[i].lng>>,
                             type |-> features.geonames[i].fclName]]]
    ELSE [features |-> <<>>, locations |-> <<>>]

\* Outcomes of the Wikimedia Commons search of fetchRockImages: the image
\* URLs the per-file requests delivered, or a failed search.
ImageOutcomes ==
    {[kind |-> "ok", images |-> <<[url |-> "https://upload.wikimedia.org/rock.jpg",
                                   title |-> "rock.jpg", description |-> "A rock"]>>],
     [kind |-> "ok", images |-> <<>>],
     [kind |-> "non2xx"], [kind |-> "throws"]}

fetchRockImages(rockName, images) ==
    IF images.kind = "ok" THEN [images |-> images.images] ELSE [images |-> <<>>]

\* Mutant: the results are kept only when every lookup delivered something.
generalGeologicalData_AllOrNothing(features, images, scientific) ==
    LET complete == features.features # <<>> /\ images.images # <<>>
                        /\ "pageUrl" \in DOMAIN scientific
    IN  [geologicalFeatures |-> IF complete THEN features
                                ELSE [features |-> <<>>, locations |-> <<>>],
         images |-> IF complete THEN images.images ELSE <<>>,
         scientificData |-> scientific,
         metadata |-> [dataSource |-> "Multiple geological databases",
                       confidence |-> "varies by source"]]

\* The object fetchGeneralGeologicalData returns once the three lookups have
\* settled (lastUpdated, the time of the reply, is left out).
generalGeologicalData(features, images, scientific) ==
    [geologicalFeatures |-> features,
     images |-> OrArray(images.images, <<>>),
     scientificData |-> scientific,
     metadata |-> [dataSource |-> "Multiple geological databases",
                   confidence |-> "varies by source"]]

\* Promise.all of the three lookups, none of which rejects.
fetchGeneralGeologicalData(rockName, rockType, up) ==
    generalGeologicalData(fetchGeologicalFeatures(rockName, up.features),
                          fetchRockImages(rockName, up.images),
                          fetchScientificData(rockName, rockType, up.summary, up.related))

\* The body of the 200 reply of the geological-data function to a parsed request.
geologicalDataResponse(body, up) ==
    CASE body.query = "geological_features" -> fetchGeologicalFeatures(body.rockName, up.features)
      [] body.query = "rock_images" -> fetchRockImages(body.rockName, up.images)
      [] body.query = "scientific_data" ->
            fetchScientificData(body.rockName, body.rockType, up.summary, up.related)
      [] OTHER -> fetchGeneralGeologicalData(body.rockName, body.rockType, up)

(***************************************************************************)
(* Conversational front-end: GeologistChat.getGeologistResponse.           *)
(***************************************************************************)

\* a || b for strings that may be undefined.
OrString(a, b) == IF a # Undefined /\ TruthyString(a) THEN a ELSE b

Substring(t, n) == SubSeq(t, 1, IF Len(t) < n THEN Len(t) ELSE n)

Slice(a, n) == SubSeq(a, 1, IF Len(a) < n THEN Len(a) ELSE n)

AsksHow(lowerQ) ==
    Contains(lowerQ, "how") /\ (Contains(lowerQ, "form") \/ Contains(lowerQ, "creat"))

AsksWhere(lowerQ) ==
    Contains(lowerQ, "where") /\ (Contains(lowerQ, "find") \/ Contains(lowerQ, "locat"))

generateResponseFromData(rock, q, scientificData) ==
    LET lowerQ == ToLowerCase(q)
        summary == Get(scientificData, "summary")
        pageUrl == Get(scientificData, "pageUrl")
    IN  IF AsksHow(lowerQ)
        THEN "Based on current geological research: " \o OrString(summary, rock.formation)
             \o " \n      \nFor more detailed information, you can explore: "
             \o OrString(pageUrl, "geological databases")
        ELSE IF AsksWhere(lowerQ)
        THEN "According to geological surveys, " \o rock.name
             \o " can be found in various locations worldwide. \n      \nThe scientific literature indicates: "
             \o (IF summary # Undefined /\ TruthyString(Substring(summary, 200))
                 THEN Substring(summary, 200) ELSE rock.formation)
             \o "...\n      \nFor current geological feature locations, I recommend checking local geological surveys."
        ELSE "Based on geological databases: "
             \o OrString(summary, rock.name \o " is a " \o rock.type \o " rock with unique properties.")
             \o "\n    \n"
             \o (IF pageUrl # Undefined /\ TruthyString(pageUrl)
                 THEN "Learn more: " \o pageUrl ELSE "")

simulateGeologistResponse(rock, q) ==
    LET lowerQ == ToLowerCase(q)
    IN  IF AsksHow(lowerQ)
        THEN "Great question about " \o rock.name \o " formation! " \o rock.formation
             \o " This process typically occurs over millions of years under specific temperature and pressure conditions. The minerals present in "
             \o rock.name \o " - " \o Join(Slice(rock.composition, 3), ", ")
             \o " - crystallized during this formation process."
        ELSE IF AsksWhere(lowerQ)
        THEN "You can commonly find " \o rock.name \o " in these locations: "
             \o Join(Slice(rock.locations, 3), ", ")
             \o ". These areas have the right geological conditions for " \o rock.type
             \o " rock formation. Look for outcrops in areas with "
             \o (IF rock.type = "igneous" THEN "volcanic activity or plutonic intrusions"
                 ELSE IF rock.type = "metamorphic" THEN "mountain-building events or contact zones"
                 ELSE "sedimentary basins and depositional environments")
             \o "."
        ELSE IF Contains(lowerQ, "age") \/ Contains(lowerQ, "old")
        THEN rock.name \o " specimens can vary in age "
             \o (IF rock.type = "igneous" THEN "from recent volcanic activity to billions of years old"
                 ELSE IF rock.type = "metamorphic" THEN "typically very ancient, often Precambrian"
                 ELSE "ranging from recent deposits to hundreds of millions of years old")
             \o ". The age depends on when the specific geological processes occurred in that location. Dating techniques like radiometric dating of zircon crystals or stratigraphic relationships help determine precise ages."
        ELSE IF Contains(lowerQ, "mineral") \/ Contains(lowerQ, "composition")
        THEN "The mineral composition of " \o rock.name \o " includes: "
             \o Join(rock.composition, ", ")
             \o ". Each mineral contributes to the rock's properties - hardness, color, cleavage patterns, and weathering resistance. The proportion and arrangement of these minerals determine the rock's texture and appearance."
        ELSE IF Contains(lowerQ, "use") \/ Contains(lowerQ, "purpose")
        THEN rock.name \o " has several important applications: " \o Join(rock.uses, "; ")
             \o ". Its physical and chemical properties make it valuable for these purposes. The durability and composition are key factors in determining its commercial uses."
        ELSE "That's an interesting question about " \o rock.name \o "! As a " \o rock.type
             \o " rock, it has unique characteristics. Based on current geological understanding and database information, I'd need to query specific geological surveys for detailed information about your question. Would you like me to elaborate on any particular aspect of this rock's formation, composition, or geological significance?"

\* data?.scientificData is truthy: the reply has that field.
HasScientificData(inv) ==
    inv.kind = "ok" /\ "scientificData" \in DOMAIN inv.data

\* Mutant: a rejected call is not caught and no answer is produced.
getGeologistResponse_Uncaught(rock, q, inv) ==
    IF inv.kind = "throws" THEN ""
    ELSE IF HasScientificData(inv)
    THEN generateResponseFromData(rock, q, inv.data.scientificData)
    ELSE simulateGeologistResponse(rock, q)

\* inv is what supabase.functions.invoke delivered: data of a 200 reply, an
\* error, or a rejected promise.
getGeologistResponse(rock, q, inv) ==
    IF HasScientificData(inv)
    THEN generateResponseFromData(rock, q, inv.data.scientificData)
    ELSE simulateGeologistResponse(rock, q)

(***************************************************************************)
(* Inputs of the identify-rock request.                                    *)
(***************************************************************************)

\* Words a description is built from: rock names with a Tier-1 rule, rock
\* names without one, a word that merely contains a rock name, and words of
\* the extractor's own vocabulary.
Vocabulary ==
    {"granite", "basalt", "limestone", "obsidian", "pumice",
     "gabbro", "shale", "sandy",
     "coarse", "fine", "glassy", "shiny", "porous", "layered",
     "dark", "light", "gray", "soft"}

RECURSIVE WordLists(_, _)
WordLists(words, n) ==
    IF n = 0 THEN {<<>>}
    ELSE LET shorter == WordLists(words, n - 1)
         IN  shorter \cup {Append(ws, w) : ws \in shorter, w \in words}

ExampleDescriptions ==
    {"glassy shiny volcanic rock", "porous light volcanic foam",
     "pumice porous light volcanic foam", "Granite", " basalt", "marble\nslate",
     "schist", "scoria", "sublime", "large crystals", "large\ncrystals",
     "no crystals", "quartz sandstone", "hard gray rough", "soft white banded",
     "flaky green", "sparkly pale crystals", "difficult to scratch",
     "clay layers", "   ", "a coarse and fine red rock",
     "shiny coarse dark rock", "porous coarse gray", "obsidian coarse dark",
     "marble sandstone", "foliated red soft", "smooth dark large crystals"}

Descriptions ==
    {Join(ws, " ") : ws \in WordLists(Vocabulary, MaxWords)} \cup ExampleDescriptions

\* The placeholder image analysis the client sends when an image was uploaded.
ImageAnalyses ==
    {[colors |-> <<"varies">>, texture |-> "unknown", patterns |-> <<"varies">>]}

Requests ==
    {<<>>}
    \cup [description : Descriptions]
    \cup [imageAnalysis : ImageAnalyses]
    \cup [description : Descriptions, imageAnalysis : ImageAnalyses]

LabelsOf(rules) == {rules[i].label : i \in DOMAIN rules} \cup {"unknown"}

KeywordVocabulary == {"pumice", "sandy", "clay", "bedrock"}

ExampleKeywordLists == {<<"flaky">>, <<"granite", "pumice">>, <<"clay", "layers">>}

\* Characteristics as parseCharacteristics can produce them, dimension by dimension.
ClassifierInputs ==
    [texture : LabelsOf(TextureRules), color : LabelsOf(ColorRules),
     hardness : LabelsOf(HardnessRules), luster : LabelsOf(LusterRules),
     crystalSize : LabelsOf(CrystalSizeRules),
     keywords : WordLists(KeywordVocabulary, MaxKeywords) \cup ExampleKeywordLists]

(***************************************************************************)
(* The identify-rock request: serve -> identifyRock -> enhanceRockData.    *)
(***************************************************************************)

ChatIdle ==
    /\ chatPc = "off"
    /\ rockData = None
    /\ question = ""
    /\ invoke = None
    /\ answer = ""

HttpIdle ==
    /\ httpPc = "off"
    /\ httpBody = None
    /\ upstream = None
    /\ lookups = None
    /\ httpResponse = None
    /\ calls = <<>>

PageOff ==
    /\ appState = "off"
    /\ currentRock = None
    /\ isAnalyzing = FALSE
    /\ analysis = None

TranscriptOff ==
    /\ chatComponent = "off"
    /\ messages = <<>>
    /\ currentMessage = ""
    /\ isTyping = FALSE
    /\ sending = None

UiOff == PageOff /\ TranscriptOff

Init ==
    /\ pc = "start"
    /\ request \in Requests
    /\ characteristics = None
    /\ identification = None
    /\ wiki = None
    /\ enhanced = None
    /\ ChatIdle
    /\ HttpIdle
    /\ UiOff

ParseCharacteristics ==
    /\ pc = "start"
    /\ characteristics' = parseCharacteristics(request)
    /\ pc' = "parsed"
    /\ UNCHANGED <<request, identification, wiki, enhanced,
                   chatPc, rockData, question, invoke, answer>>
    /\ UNCHANGED httpVars
    /\ UNCHANGED uiVars

ClassifyRock ==
    /\ pc = "parsed"
    /\ identification' = classifyRock(characteristics)
    /\ pc' = "classified"
    /\ UNCHANGED <<request, characteristics, wiki, enhanced,
                   chatPc, rockData, question, invoke, answer>>
    /\ UNCHANGED httpVars
    /\ UNCHANGED uiVars

EnhanceRockData ==
    /\ pc = "classified"
    /\ \E outcome \in WikiOutcomes :
          /\ wiki' = outcome
          /\ enhanced' = enhanceRockData(identification, outcome)
    /\ pc' = "enhanced"
    /\ UNCHANGED <<request, characteristics, identification,
                   chatPc, rockData, question, invoke, answer>>
    /\ UNCHANGED httpVars
    /\ UNCHANGED uiVars

Next == ParseCharacteristics \/ ClassifyRock \/ EnhanceRockData

Spec == Init /\ [][Next]_vars

\* classifyRock applied to every combination of characteristic values.
InitClassify ==
    /\ pc = "parsed"
    /\ request = None
    /\ characteristics \in ClassifierInputs
    /\ identification = None
    /\ wiki = None
    /\ enhanced = None
    /\ ChatIdle
    /\ HttpIdle
    /\ UiOff

NextClassify == ClassifyRock

SpecClassify == InitClassify /\ [][NextClassify]_vars

(***************************************************************************)
(* Properties of the extractor and the classifier.                         *)
(***************************************************************************)

Range(f) == {f[i] : i \in DOMAIN f}

\* parseCharacteristics has just returned; classifyRock has just returned.
\* (Neither result is changed by any later step.)
Parsed == pc = "parsed"
Classified == pc = "classified"

CatalogNames ==
    {"Granite", "Basalt", "Limestone", "Sandstone", "Marble", "Slate", "Quartzite",
     "Obsidian", "Pumice", "Scoria", "Gabbro", "Shale", "Schist"}

RockTypes == {"igneous", "metamorphic", "sedimentary"}

\* The rock names and synonyms of Tier 1, in the order they are checked,
\* with the rock and confidence each stands for.
NameOrder ==
    << [words |-> {"granite"}, name |-> "Granite", confidence |-> 88],
       [words |-> {"basalt"}, name |-> "Basalt", confidence |-> 85],
       [words |-> {"limestone", "lime"}, name |-> "Limestone", confidence |-> 82],
       [words |-> {"sandstone", "sand"}, name |-> "Sandstone", confidence |-> 80],
       [words |-> {"marble"}, name |-> "Marble", confidence |-> 85],
       [words |-> {"slate"}, name |-> "Slate", confidence |-> 83],
       [words |-> {"quartzite", "quartz"}, name |-> "Quartzite", confidence |-> 81],
       [words |-> {"obsidian"}, name |-> "Obsidian", confidence |-> 90],
       [words |-> {"pumice"}, name |-> "Pumice", confidence |-> 87] >>

\* Some keyword carries one of the words.
Mentions(keywords, words) ==
    \E k \in Range(keywords) : \E w \in words : Contains(k, w)

\* No keyword carries a rock name or synonym of Tier 1.
NoNameKeyword(keywords) ==
    \A i \in DOMAIN NameOrder : ~Mentions(keywords, NameOrder[i].words)

\* C1 as stated: every catalog name that is a keyword of the description is
\* the name of the rock returned.
C1_EveryCatalogNameWins ==
    (Classified /\ HasDescription(request)) =>
        \A n \in CatalogNames :
            ToLowerCase(n) \in Range(characteristics.keywords) => identification.name = n

\* C1 (amended): a keyword that is the name of a rock with a Tier-1 rule decides
\* the result, with that rock's Tier-1 confidence, whatever the extracted
\* characteristics, provided no keyword carries a name or synonym checked
\* earlier in the Tier-1 order.
C1_Tier1NameWins ==
    (Classified /\ HasDescription(request)) =>
        \A i \in DOMAIN NameOrder :
            ( /\ ToLowerCase(NameOrder[i].name) \in Range(characteristics.keywords)
              /\ \A j \in 1..(i - 1) : ~Mentions(characteristics.keywords, NameOrder[j].words) )
            => /\ identification.name = NameOrder[i].name
               /\ identification.confidence = NameOrder[i].confidence

\* A description naming obsidian together with words that resolve to the
\* coarse, dark characteristics of the Gabbro rule.
C1_Witness ==
    /\ pc = "classified"
    /\ "obsidian" \in Range(characteristics.keywords)
    /\ characteristics.texture = "coarse"
    /\ characteristics.color = "dark"
    /\ identification.name = "Obsidian"

MatchingRules(desc, rules) == {i \in DOMAIN rules : Matches(desc, rules[i].alts)}

SetMax(S) == CHOOSE m \in S : \A x \in S : x <= m

LastMatchLabel(desc, rules) ==
    IF MatchingRules(desc, rules) = {} THEN "unknown"
    ELSE rules[SetMax(MatchingRules(desc, rules))].label

\* C5: each dimension holds the label of the last rule, in declaration order,
\* whose pattern matches the lower-cased description, and 'unknown' when no
\* rule matches.
C5_LastMatchWins ==
    (Parsed /\ HasDescription(request)) =>
        \A dim \in Dimensions :
            characteristics[dim] = LastMatchLabel(ToLowerCase(request.description), RulesOf(dim))

\* A description matching both the coarse and the fine texture patterns.
C5_Witness ==
    /\ pc = "parsed"
    /\ HasDescription(request)
    /\ MatchingRules(ToLowerCase(request.description), TextureRules) = {1, 2}
    /\ characteristics.texture = "fine"
    /\ characteristics.hardness = "unknown"

NoDescription(req) == "description" \notin DOMAIN req \/ req.description = ""

\* C7: an absent or empty description, with or without image analysis, gives
\* 'unknown' in all five dimensions and no keywords, and the final fallback
\* Granite, igneous, 55, whose formation text asks for more specific details.
C7_EmptyDescription ==
    (request # None /\ NoDescription(request)) =>
        /\ pc # "start" =>
              /\ \A dim \in Dimensions : characteristics[dim] = "unknown"
              /\ characteristics.keywords = <<>>
        /\ pc \in {"classified", "enhanced"} =>
              /\ identification.name = "Granite"
              /\ identification.type = "igneous"
              /\ identification.confidence = 55
              /\ Contains(identification.formation, "identification needs more specific details")

\* The empty description sent together with an image analysis.
C7_Witness ==
    /\ pc = "classified"
    /\ "description" \in DOMAIN request
    /\ request.description = ""
    /\ "imageAnalysis" \in DOMAIN request
    /\ "dominantColors" \in DOMAIN characteristics
    /\ identification.confidence = 55

CoarseRuleReached ==
    /\ Classified
    /\ characteristics.texture = "coarse" \/ characteristics.crystalSize = "large"
    /\ NoNameKeyword(characteristics.keywords)
    /\ characteristics.texture \notin {"glassy", "vesicular"}

\* The rules in the order the claim gives them.
ClaimedOrder(c) ==
    Tier1Rule(KeywordString(c)) \o GlassyRule(c) \o VesicularRule(c) \o CoarseRule(c)
    \o FineDarkRule(c) \o LayeredRule(c, KeywordString(c)) \o SoftLightRule(c)
    \o SandGrainRule(c, KeywordString(c)) \o FoliatedRule(c, KeywordString(c))
    \o CrystallineRule(c) \o DarkFallback(c) \o LightFallback(c) \o SoftFallback(c)
    \o <<FinalFallback>>

\* C4 as stated: whenever the coarse/large-crystal rule is the one to decide,
\* the result is Granite 82 or Gabbro 78.
C4_CoarseAlwaysDecides ==
    CoarseRuleReached => identification \in {Granite(82), Gabbro(78)}

\* C4 (amended): the result is that of the first rule, in the claimed order,
\* that returns; the coarse/large-crystal rule returns Granite 82 for colour
\* light or gray and Gabbro 78 for colour dark, and for any other colour it
\* returns nothing and a later rule decides.
C4_OrderedRules ==
    /\ Classified => identification = Head(ClaimedOrder(characteristics))
    /\ CoarseRuleReached =>
          /\ characteristics.color \in {"light", "gray"} => identification = Granite(82)
          /\ characteristics.color = "dark" => identification = Gabbro(78)
          /\ characteristics.color \notin {"light", "gray", "dark"} =>
                /\ identification \notin {Granite(82), Gabbro(78)}
                /\ identification \in
                      {Shale(75), Sandstone(72), Limestone(75), Slate(70), Schist(68),
                       Marble(76), Quartzite(74), Limestone(60), FinalFallback}

\* Fine texture, large crystals and dark colour: the predicates of the coarse
\* rule and of the fine+dark rule both hold, and the coarse rule decides.
C4_Witness ==
    /\ pc = "classified"
    /\ CoarseRuleReached
    /\ characteristics.texture = "fine"
    /\ characteristics.color = "dark"
    /\ identification = Gabbro(78)

\* C10: classifyRock returns one Identification for every input: a catalog
\* name, one of the three rock types, an integer confidence in 0..100; the
\* lowest confidence is that of the Granite final fallback.
C10_Total ==
    /\ pc = "parsed" => Len(RuleResults(characteristics)) >= 1
    /\ Classified =>
          /\ identification.name \in CatalogNames
          /\ identification.type \in RockTypes
          /\ identification.confidence \in 0..100
          /\ identification.confidence >= 55
          /\ identification.confidence = 55 =>
                identification.name = "Granite" /\ identification.formation = InconclusiveFormation

\* No rule but the last one applies.
C10_Witness ==
    /\ pc = "classified"
    /\ characteristics.keywords # <<>>
    /\ characteristics.color = "blue"
    /\ identification.confidence = 55

(***************************************************************************)
(* Properties of the enrichment stage.                                     *)
(***************************************************************************)

WikiFailed == wiki # None /\ wiki.kind \in {"non2xx", "throws"}

\* C2: when the summary request fails, funFacts is the static entry of the
\* rock name, or the generic sentence with the name; never the empty list.
C2_StaticFunFactsOnFailure ==
    (pc = "enhanced" /\ WikiFailed) =>
        /\ enhanced.funFacts # <<>>
        /\ enhanced.funFacts =
              IF identification.name \in DOMAIN funFactsMap
              THEN funFactsMap[identification.name]
              ELSE <<identification.name
                     \o " has unique geological properties that make it scientifically interesting.">>

\* C3: the location service returning no locations, the locations are the
\* four default locations of the rock type.
C3_DefaultLocations ==
    (pc = "enhanced" /\ fetchLocationData(identification.name).locations = <<>>) =>
        /\ enhanced.locations = locationMap[identification.type]
        /\ Len(enhanced.locations) = 4

(***************************************************************************)
(* The chat front-end answering one question about the identified rock.    *)
(***************************************************************************)

ChatDescriptions ==
    {"", "glassy shiny volcanic rock", "porous light volcanic foam", "schist",
     "clay layers", "flaky green", "sparkly pale crystals", "hard gray rough"}

\* The rock the page shows when the identify-rock call fails.
ClientFallbackRock ==
    [name |-> "Granite", type |-> "igneous", confidence |-> 50,
     formation |-> "Unable to determine exact formation process. Granite typically forms from slow cooling of magma.",
     locations |-> <<"Worldwide distribution">>,
     composition |-> <<"Quartz", "Feldspar", "Mica">>,
     uses |-> <<"Construction material", "Decorative stone">>,
     classification |-> [group |-> "Igneous rock"],
     funFacts |-> <<"Rock identification temporarily unavailable. Please try again.">>]

\* The rocks the chat can be opened with: the replies of identify-rock, and
\* the page's own fallback rock.
ChatRocks ==
    {JsonRoundTrip(enhanceRockData(classifyRock(parseCharacteristics([description |-> d])), o)) :
        d \in ChatDescriptions, o \in {[kind |-> "non2xx"]}}
    \cup {ClientFallbackRock}

Questions ==
    {"How was this rock formed?", "Where can I find more specimens?",
     "What makes this rock unique?", "How old might this specimen be?",
     "Which minerals are in it?", "What is it used for?"}

Upstreams == [summary : SummaryOutcomes, related : RelatedOutcomes]

InitChat ==
    /\ pc = "off"
    /\ request = None
    /\ characteristics = None
    /\ identification = None
    /\ wiki = None
    /\ enhanced = None
    /\ chatPc = "idle"
    /\ rockData \in ChatRocks
    /\ question = ""
    /\ invoke = None
    /\ answer = ""
    /\ HttpIdle
    /\ UiOff

\* The function replied 200 with the body geologicalDataResponse built.
InvokeReplied(q) ==
    \E up \in Upstreams :
        LET inv == [kind |-> "ok",
                    data |-> JsonRoundTrip(geologicalDataResponse(
                                [rockName |-> rockData.name, rockType |-> rockData.type,
                                 query |-> "scientific_data"], up))]
        IN  /\ invoke' = inv
            /\ answer' = getGeologistResponse(rockData, q, inv)

\* invoke resolved with an error, or the import or the call rejected.
InvokeFailed(q) ==
    \E kind \in {"error", "throws"} :
        /\ invoke' = [kind |-> kind]
        /\ answer' = getGeologistResponse(rockData, q, [kind |-> kind])

GetGeologistResponse ==
    /\ chatPc = "idle"
    /\ \E q \in Questions :
          /\ question' = q
          /\ InvokeReplied(q) \/ InvokeFailed(q)
    /\ chatPc' = "answered"
    /\ UNCHANGED <<pc, request, characteristics, identification, wiki, enhanced, rockData>>
    /\ UNCHANGED httpVars
    /\ UNCHANGED uiVars

NextChat == GetGeologistResponse

SpecChat == InitChat /\ [][NextChat]_vars

\* C6: when the scientific_data call succeeds and carries a summary, the
\* answer is the one generateResponseFromData builds from the fetched data.
C6_AnswerFromFetchedData ==
    (chatPc = "answered" /\ invoke.kind = "ok"
        /\ Get(invoke.data, "summary") # Undefined
        /\ TruthyString(Get(invoke.data, "summary"))) =>
        answer = generateResponseFromData(rockData, question, invoke.data)

(***************************************************************************)
(* enhanceRockData applied to every Identification and every outcome of    *)
(* its summary request.                                                    *)
(***************************************************************************)

\* The names classifyRock can return, and the fallback name of the earlier
\* classifier.
EnrichNames == CatalogNames \cup {"Unknown Rock"}

Identifications ==
    {createRockData(n, t, c, InconclusiveFormation, "unknown", "unknown") :
        n \in EnrichNames, t \in RockTypes, c \in {30, 55, 88}}

InitEnrich ==
    /\ pc = "classified"
    /\ request = None
    /\ characteristics = None
    /\ identification \in Identifications
    /\ wiki = None
    /\ enhanced = None
    /\ ChatIdle
    /\ HttpIdle
    /\ UiOff

NextEnrich == EnhanceRockData

SpecEnrich == InitEnrich /\ [][NextEnrich]_vars

Enhanced == pc = "enhanced"

\* C11: for a rock name that is not a key of the composition table the
\* enriched rock has the one-element generic composition list, for one that is
\* not a key of the uses table the one-element generic uses list, and for one
\* that is not a key of the classification table a classification that is only
\* a group, the rock type followed by " rock"; this for every rock type.
C11_GenericFallbacks ==
    Enhanced =>
        /\ identification.name \notin DOMAIN compositionMap =>
              /\ Len(enhanced.composition) > 0
              /\ enhanced.composition = <<"Mineral composition varies">>
        /\ identification.name \notin DOMAIN usesMap =>
              /\ Len(enhanced.uses) > 0
              /\ enhanced.uses = <<"Various industrial and construction applications">>
        /\ identification.name \notin DOMAIN classificationMap =>
              /\ DOMAIN enhanced.classification = {"group"}
              /\ enhanced.classification.group = identification.type \o " rock"
              /\ Contains(enhanced.classification.group, identification.type)

C11_Witness ==
    /\ Enhanced
    /\ identification.name \notin
          DOMAIN compositionMap \cup DOMAIN usesMap \cup DOMAIN classificationMap
    /\ identification.name = "Unknown Rock"
    /\ identification.type = "sedimentary"
    /\ enhanced.classification.group = "sedimentary rock"
    /\ enhanced.composition = <<"Mineral composition varies">>

\* The summary request was answered 2xx.
WikiSucceeded == wiki # None /\ wiki.kind = "ok"

StaticFunFacts(rockName) == Range(getDefaultFunFacts(rockName))

IdentificationFields ==
    {"name", "type", "confidence", "formation", "subtype", "textureType"}

EnrichmentFields ==
    {"locations", "composition", "uses", "classification", "funFacts", "image"}

\* C13: for every Identification and every outcome of the summary request
\* (2xx, non-2xx, network error) enhanceRockData returns a record with the
\* fields of an EnrichedRock, in which name, type, confidence, formation,
\* subtype and textureType have the values of the Identification.
C13_IdentificationKept ==
    Enhanced =>
        /\ DOMAIN enhanced = IdentificationFields \cup EnrichmentFields
        /\ \A f \in IdentificationFields : enhanced[f] = identification[f]
        /\ Len(enhanced.composition) > 0
        /\ Len(enhanced.uses) > 0
        /\ "group" \in DOMAIN enhanced.classification

C13_Witness ==
    /\ Enhanced
    /\ wiki.kind = "throws"
    /\ identification.name = "Slate"
    /\ identification.confidence = 88
    /\ enhanced.name = "Slate"
    /\ enhanced.confidence = 88
    /\ enhanced.formation = identification.formation

(***************************************************************************)
(* The identify-rock handler, from the arrival of a request to its         *)
(* Response.                                                               *)
(***************************************************************************)

\* A value of a JSON body: its type and its JSON text.
Js(type, text) == [type |-> type, text |-> text]

JsUndefined == Js("undefined", "")

\* JavaScript truthiness of a JSON value.
JsTruthy(v) ==
    CASE v.type = "string" -> v.text # ""
      [] v.type = "number" -> v.text # "0"
      [] v.type = "boolean" -> v.text = "true"
      [] v.type \in {"null", "undefined"} -> FALSE
      [] OTHER -> TRUE

\* obj.field of a body read by req.json(): undefined for a body that is not
\* an object, and for an object without the field.
JsField(req, field) ==
    IF req.parse = "object" /\ field \in DOMAIN req.fields THEN req.fields[field]
    ELSE JsUndefined

\* await req.json() rejects; destructuring null throws a TypeError.
ReadingBodyThrows(req) == req.parse \in {"unparsable", "null"}

\* description.toLowerCase() of a truthy value that is not a string throws.
ToLowerCaseThrows(v) == JsTruthy(v) /\ v.type # "string"

\* The arguments identifyRock passes on to parseCharacteristics.
ArgumentsOf(req) ==
    LET description == JsField(req, "description")
        imageAnalysis == JsField(req, "imageAnalysis")
        d == IF description.type = "string" THEN [description |-> description.text] ELSE <<>>
        i == IF imageAnalysis.type = "object" THEN [imageAnalysis |-> imageAnalysis.value] ELSE <<>>
    IN  d @@ i

IdentifyRockError == [status |-> 500, body |-> [error |-> "Failed to identify rock"]]

\* Mutant: a network error of the summary request reaches the handler's catch.
serveIdentifyRock_UpstreamSurfaces(req, wikiOutcome) ==
    IF req.method = "OPTIONS" THEN [status |-> 200, body |-> "ok"]
    ELSE IF \/ ReadingBodyThrows(req)
            \/ ToLowerCaseThrows(JsField(req, "description"))
            \/ wikiOutcome.kind = "throws"
         THEN IdentifyRockError
         ELSE [status |-> 200,
               body |-> JsonRoundTrip(enhanceRockData(
                            classifyRock(parseCharacteristics(ArgumentsOf(req))), wikiOutcome))]

serveIdentifyRock(req, wikiOutcome) ==
    IF req.method = "OPTIONS" THEN [status |-> 200, body |-> "ok"]
    ELSE IF ReadingBodyThrows(req) \/ ToLowerCaseThrows(JsField(req, "description"))
         THEN IdentifyRockError
         ELSE [status |-> 200,
               body |-> JsonRoundTrip(enhanceRockData(
                            classifyRock(parseCharacteristics(ArgumentsOf(req))), wikiOutcome))]

\* Values a body can carry as its description and as its imageAnalysis.
BodyDescriptions ==
    {Js("string", d) : d \in {"", "   ", "Granite", "marble\nslate", "glassy shiny volcanic rock",
                              "porous light volcanic foam", "flaky green", "clay layers"}}
    \cup {Js("number", "0"), Js("number", "5"), Js("boolean", "false"), Js("boolean", "true"),
          Js("null", "null"), Js("object", "{}"), Js("object", "[]")}

BodyImageAnalyses ==
    {[type |-> "object", text |-> "{...}", value |-> ia] : ia \in ImageAnalyses}
    \cup {Js("null", "null"), Js("number", "5")}

IdentifyRockBodies ==
    {[method |-> "OPTIONS", parse |-> "unparsable"]}
    \cup [method : {"POST"}, parse : {"unparsable", "null", "number", "array"}]
    \cup [method : {"POST"}, parse : {"object"},
          fields : {<<>>} \cup [description : BodyDescriptions]
                          \cup [imageAnalysis : BodyImageAnalyses]
                          \cup [description : BodyDescriptions, imageAnalysis : BodyImageAnalyses]]

PipelineOff ==
    /\ pc = "off"
    /\ request = None
    /\ characteristics = None
    /\ identification = None
    /\ wiki = None
    /\ enhanced = None

InitIdentify ==
    /\ PipelineOff
    /\ UiOff
    /\ ChatIdle
    /\ httpPc = "received"
    /\ httpBody \in IdentifyRockBodies
    /\ upstream = None
    /\ lookups = None
    /\ httpResponse = None
    /\ calls = <<>>

\* One run of the handler; the summary request is sent only when
\* enhanceRockData is reached.
ServeIdentifyRock ==
    /\ httpPc = "received"
    /\ \E outcome \in WikiOutcomes :
          /\ upstream' = IF serveIdentifyRock(httpBody, outcome).status = 200
                            /\ httpBody.method # "OPTIONS"
                         THEN outcome ELSE None
          /\ httpResponse' = serveIdentifyRock(httpBody, outcome)
    /\ httpPc' = "responded"
    /\ UNCHANGED <<httpBody, lookups, calls>>
    /\ UNCHANGED pipelineVars
    /\ UNCHANGED chatVars
    /\ UNCHANGED uiVars

NextIdentify == ServeIdentifyRock

SpecIdentify == InitIdentify /\ [][NextIdentify]_vars

Responded == httpPc = "responded"

NotPreflight == httpBody.method # "OPTIONS"

\* The body is JSON of the request shape { description?: string,
\* imageAnalysis?: { colors, texture, patterns } }.
WellFormedIdentifyBody(req) ==
    /\ req.parse = "object"
    /\ JsField(req, "description").type \in {"undefined", "string"}
    /\ JsField(req, "imageAnalysis").type \in {"undefined", "object"}

\* C15: to a request that is not a preflight the handler replies 500 with
\* { error: 'Failed to identify rock' } when the body cannot be parsed, and
\* only when the body is unparsable or not of the request shape; to every
\* body of the request shape, with or without a description, it replies 200
\* with an EnrichedRock, whatever the outcome of the summary request.
C15_ErrorOnlyForMalformedBody ==
    (Responded /\ NotPreflight) =>
        /\ httpResponse.status \in {200, 500}
        /\ httpBody.parse = "unparsable" => httpResponse = IdentifyRockError
        /\ httpResponse.status = 500 =>
              /\ httpResponse = IdentifyRockError
              /\ ~WellFormedIdentifyBody(httpBody)
              /\ ReadingBodyThrows(httpBody) \/ ToLowerCaseThrows(JsField(httpBody, "description"))
        /\ WellFormedIdentifyBody(httpBody) =>
              /\ httpResponse.status = 200
              /\ IdentificationFields \subseteq DOMAIN httpResponse.body
              /\ DOMAIN httpResponse.body \subseteq IdentificationFields \cup EnrichmentFields
              /\ EnrichmentFields \ {"image"} \subseteq DOMAIN httpResponse.body

C15_Witness ==
    /\ Responded
    /\ NotPreflight
    /\ WellFormedIdentifyBody(httpBody)
    /\ "description" \notin DOMAIN httpBody.fields
    /\ upstream.kind = "throws"
    /\ httpResponse.status = 200
    /\ httpResponse.body.name = "Granite"
    /\ httpResponse.body.funFacts = <<>>

(***************************************************************************)
(* The geological-data handler, from the arrival of a request to its       *)
(* Response.  For the default query the three lookups of                   *)
(* fetchGeneralGeologicalData settle one by one, in any order.             *)
(***************************************************************************)

\* A value inside a template literal or encodeURIComponent.
JsString(v) == IF v.type = "undefined" THEN "undefined" ELSE v.text

\* The branch the handler takes for the query of the body.
QueryKind(req) ==
    LET query == JsField(req, "query")
    IN  IF query.type = "string"
           /\ query.text \in {"geological_features", "rock_images", "scientific_data"}
        THEN query.text
        ELSE "default"

\* { rockName, rockType, query } as the handler uses them.
GeologicalArguments(req) ==
    [rockName |-> JsString(JsField(req, "rockName")),
     rockType |-> JsString(JsField(req, "rockType")),
     query |-> QueryKind(req)]

GeologicalDataError ==
    [status |-> 500, body |-> [error |-> "Failed to fetch geological data"]]

\* JSON.stringify of the reply: the undefined fields of the scientific data
\* are dropped, at the top of the reply and inside the default query's reply.
GeologicalJson(body) ==
    IF "scientificData" \in DOMAIN body
    THEN [body EXCEPT !.scientificData = JsonRoundTrip(@)]
    ELSE JsonRoundTrip(body)

\* Mutant: a network error of an upstream request reaches the handler's catch.
serveGeologicalData_UpstreamSurfaces(req, up) ==
    IF req.method = "OPTIONS" THEN [status |-> 200, body |-> "ok"]
    ELSE IF \/ ReadingBodyThrows(req)
            \/ \E f \in DOMAIN up : up[f].kind = "throws"
         THEN GeologicalDataError
         ELSE [status |-> 200,
               body |-> GeologicalJson(geologicalDataResponse(GeologicalArguments(req), up))]

serveGeologicalData(req, up) ==
    IF req.method = "OPTIONS" THEN [status |-> 200, body |-> "ok"]
    ELSE IF ReadingBodyThrows(req) THEN GeologicalDataError
         ELSE [status |-> 200,
               body |-> GeologicalJson(geologicalDataResponse(GeologicalArguments(req), up))]

GeologicalRockNames == {Js("string", "Granite"), Js("string", "Obsidian")}

GeologicalQueries ==
    {Js("string", q) : q \in {"geological_features", "rock_images", "scientific_data", "general"}}

GeologicalDataBodies ==
    {[method |-> "OPTIONS", parse |-> "unparsable"]}
    \cup [method : {"POST"}, parse : {"unparsable", "null", "number"}]
    \cup [method : {"POST"}, parse : {"object"},
          fields : [rockName : GeologicalRockNames, rockType : {Js("string", "igneous")},
                    query : GeologicalQueries]
                   \cup [rockName : GeologicalRockNames, rockType : {Js("string", "igneous")}]
                   \cup [query : GeologicalQueries]]

GeologicalUpstreams ==
    [features : FeatureOutcomes, images : ImageOutcomes,
     summary : SummaryOutcomes, related : RelatedOutcomes]

NotSent == [kind |-> "not sent"]

\* The requests the branch of a query sends.
SentFor(kind, up) ==
    [features |-> IF kind = "geological_features" THEN up.features ELSE NotSent,
     images |-> IF kind = "rock_images" THEN up.images ELSE NotSent,
     summary |-> IF kind = "scientific_data" THEN up.summary ELSE NotSent,
     related |-> IF kind = "scientific_data" /\ up.summary.kind # "throws"
                 THEN up.related ELSE NotSent]

InitGeological ==
    /\ PipelineOff
    /\ UiOff
    /\ ChatIdle
    /\ httpPc = "received"
    /\ httpBody \in GeologicalDataBodies
    /\ upstream = None
    /\ lookups = None
    /\ httpResponse = None
    /\ calls = <<>>

\* The handler calls fetchGeneralGeologicalData.
TakesDefaultBranch(req) ==
    req.method # "OPTIONS" /\ ~ReadingBodyThrows(req) /\ QueryKind(req) = "default"

\* A preflight, an unreadable body, or one of the three single-lookup queries.
ServeGeologicalQuery ==
    /\ httpPc = "received"
    /\ ~TakesDefaultBranch(httpBody)
    /\ \E up \in GeologicalUpstreams :
          LET sent == IF httpBody.method = "OPTIONS" \/ ReadingBodyThrows(httpBody)
                      THEN SentFor("none", up)
                      ELSE SentFor(QueryKind(httpBody), up)
          IN  /\ upstream' = sent
              /\ httpResponse' = serveGeologicalData(httpBody, sent)
    /\ httpPc' = "responded"
    /\ UNCHANGED <<httpBody, lookups, calls>>
    /\ UNCHANGED pipelineVars
    /\ UNCHANGED chatVars
    /\ UNCHANGED uiVars

Pending == [pending |-> TRUE]

\* Promise.all([...]): the three lookups are called, each sends its first request.
StartLookups ==
    /\ httpPc = "received"
    /\ TakesDefaultBranch(httpBody)
    /\ httpPc' = "joining"
    /\ lookups' = [features |-> Pending, images |-> Pending, scientific |-> Pending]
    /\ upstream' = [features |-> NotSent, images |-> NotSent,
                    summary |-> NotSent, related |-> NotSent]
    /\ UNCHANGED <<httpBody, httpResponse, calls>>
    /\ UNCHANGED pipelineVars
    /\ UNCHANGED chatVars
    /\ UNCHANGED uiVars

FeaturesSettle ==
    /\ httpPc = "joining"
    /\ lookups.features = Pending
    /\ \E o \in FeatureOutcomes :
          /\ upstream' = [upstream EXCEPT !.features = o]
          /\ lookups' = [lookups EXCEPT !.features =
                            fetchGeologicalFeatures(GeologicalArguments(httpBody).rockName, o)]
    /\ UNCHANGED <<httpPc, httpBody, httpResponse, calls>>
    /\ UNCHANGED pipelineVars
    /\ UNCHANGED chatVars
    /\ UNCHANGED uiVars

ImagesSettle ==
    /\ httpPc = "joining"
    /\ lookups.images = Pending
    /\ \E o \in ImageOutcomes :
          /\ upstream' = [upstream EXCEPT !.images = o]
          /\ lookups' = [lookups EXCEPT !.images =
                            fetchRockImages(GeologicalArguments(httpBody).rockName, o)]
    /\ UNCHANGED <<httpPc, httpBody, httpResponse, calls>>
    /\ UNCHANGED pipelineVars
    /\ UNCHANGED chatVars
    /\ UNCHANGED uiVars

ScientificSettle ==
    /\ httpPc = "joining"
    /\ lookups.scientific = Pending
    /\ \E s \in SummaryOutcomes, r \in RelatedOutcomes :
          /\ upstream' = [upstream EXCEPT !.summary = s,
                             !.related = IF s.kind = "throws" THEN NotSent ELSE r]
          /\ lookups' = [lookups EXCEPT !.scientific =
                            fetchScientificData(GeologicalArguments(httpBody).rockName,
                                                GeologicalArguments(httpBody).rockType, s, r)]
    /\ UNCHANGED <<httpPc, httpBody, httpResponse, calls>>
    /\ UNCHANGED pipelineVars
    /\ UNCHANGED chatVars
    /\ UNCHANGED uiVars

AllSettled == \A l \in DOMAIN lookups : lookups[l] # Pending

\* Promise.all resolves; the handler replies.
JoinAndRespond ==
    /\ httpPc = "joining"
    /\ AllSettled
    /\ httpResponse' =
          [status |-> 200,
           body |-> GeologicalJson(generalGeologicalData(
                        lookups.features, lookups.images, lookups.scientific))]
    /\ httpPc' = "responded"
    /\ UNCHANGED <<httpBody, upstream, lookups, calls>>
    /\ UNCHANGED pipelineVars
    /\ UNCHANGED chatVars
    /\ UNCHANGED uiVars

NextGeological ==
    \/ ServeGeologicalQuery
    \/ StartLookups
    \/ FeaturesSettle
    \/ ImagesSettle
    \/ ScientificSettle
    \/ JoinAndRespond

SpecGeological == InitGeological /\ [][NextGeological]_vars

(***************************************************************************)
(* Properties of the geological-data handler.                              *)
(***************************************************************************)

\* The request was sent and got no 2xx reply.
Failed(outcome) == outcome.kind \in {"non2xx", "throws"}

\* The two summaries fetchScientificData writes itself.
TemplatedSummaries(args) ==
    {args.rockName \o " is a " \o args.rockType \o " rock.",
     args.rockName \o " is a " \o args.rockType
        \o " rock with unique geological characteristics."}

EmptyFeatures == [features |-> <<>>, locations |-> <<>>]

\* A scientific-data object without fetched content.
EmptyScientific(obj, args) ==
    /\ obj.summary \in TemplatedSummaries(args)
    /\ obj.relatedTopics = <<>>
    /\ "image" \notin DOMAIN obj
    /\ "pageUrl" \notin DOMAIN obj

\* Every request the handler sent upstream failed.
AllUpstreamFailed ==
    /\ \E f \in DOMAIN upstream : upstream[f] # NotSent
    /\ \A f \in DOMAIN upstream : upstream[f] # NotSent => Failed(upstream[f])

\* C16: to a request that is not a preflight the handler replies 500 only
\* when the body cannot be read (unparsable, or JSON null); for each query
\* kind, when every upstream request fails (network error or non-2xx) it
\* replies 200 with the empty result of that kind: no features and no
\* locations, no images, a templated summary with no related topics, and,
\* for the default query, the three of them together.
C16_EmptyResultsOnUpstreamFailure ==
    (Responded /\ NotPreflight) =>
        LET args == GeologicalArguments(httpBody)
            body == httpResponse.body
        IN  /\ httpResponse.status \in {200, 500}
            /\ httpResponse.status = 500 <=> ReadingBodyThrows(httpBody)
            /\ httpResponse.status = 500 => httpResponse = GeologicalDataError
            /\ (httpResponse.status = 200 /\ AllUpstreamFailed) =>
                  CASE args.query = "geological_features" -> body = EmptyFeatures
                    [] args.query = "rock_images" -> body = [images |-> <<>>]
                    [] args.query = "scientific_data" -> EmptyScientific(body, args)
                    [] OTHER ->
                          /\ body.geologicalFeatures = EmptyFeatures
                          /\ body.images = <<>>
                          /\ EmptyScientific(body.scientificData, args)

C16_Witness ==
    /\ Responded
    /\ NotPreflight
    /\ QueryKind(httpBody) = "scientific_data"
    /\ upstream.summary.kind = "non2xx"
    /\ upstream.related.kind = "throws"
    /\ httpResponse.status = 200
    /\ httpResponse.body = [summary |-> "Granite is a igneous rock.", relatedTopics |-> <<>>]

\* C17: for the default query no response exists while a lookup is pending,
\* and the response, sent once the three lookups have settled, has status
\* 200 and carries the result of each lookup whose requests were answered,
\* unchanged, whatever became of the other lookups.
C17_LookupsJoinedAndIndependent ==
    /\ httpPc = "joining" => httpResponse = None
    /\ (Responded /\ TakesDefaultBranch(httpBody)) =>
          LET args == GeologicalArguments(httpBody)
              body == httpResponse.body
          IN  /\ AllSettled
              /\ httpResponse.status = 200
              /\ upstream.features.kind = "ok" =>
                    /\ body.geologicalFeatures.features = upstream.features.geonames
                    /\ Len(body.geologicalFeatures.locations) = Len(upstream.features.geonames)
                    /\ \A i \in DOMAIN upstream.features.geonames :
                          body.geologicalFeatures.locations[i].name
                              = upstream.features.geonames[i].name
              /\ upstream.images.kind = "ok" => body.images = upstream.images.images
              /\ (upstream.summary.kind = "ok" /\ upstream.summary.extract \in WikiExtracts
                    /\ upstream.related.kind # "throws") =>
                    /\ body.scientificData.summary = upstream.summary.extract
                    /\ body.scientificData.pageUrl = upstream.summary.pageUrl
              /\ (upstream.summary.kind # "throws" /\ upstream.related.kind = "ok") =>
                    body.scientificData.relatedTopics = upstream.related.pages

C17_Witness ==
    /\ Responded
    /\ TakesDefaultBranch(httpBody)
    /\ upstream.features.kind = "ok"
    /\ upstream.features.geonames # <<>>
    /\ upstream.images.kind = "throws"
    /\ upstream.summary.kind = "non2xx"
    /\ upstream.related.kind = "non2xx"
    /\ httpResponse.status = 200
    /\ httpResponse.body.geologicalFeatures.locations[1].name = "Granite Peak"
    /\ httpResponse.body.images = <<>>

(***************************************************************************)
(* The rock-chatbot handler.                                               *)
(***************************************************************************)

DATA_SOURCES ==
    [wikipedia |-> [name |-> "Wikipedia", url |-> "https://en.wikipedia.org/",
                    description |-> "Open encyclopedia with geological articles"],
     dataGov |-> [name |-> "Data.gov Geospatial Datasets",
                  url |-> "https://catalog.data.gov/dataset/?metadata_type=geospatial",
                  description |-> "US government open geospatial datasets including geological surveys"]]

\* Outcomes of the Wikipedia summary request of fetchGeologicalData.
ChatbotWikiOutcomes ==
    {[kind |-> "ok", title |-> "Granite", extract |-> "Granite is a coarse-grained rock.",
      url |-> "https://en.wikipedia.org/wiki/Granite"],
     [kind |-> "ok", title |-> Undefined, extract |-> Undefined, url |-> Undefined],
     [kind |-> "non2xx"], [kind |-> "throws"]}

fetchGeologicalData(query, outcome) ==
    (IF outcome.kind = "ok"
     THEN <<[source |-> DATA_SOURCES.wikipedia, title |-> outcome.title,
             summary |-> outcome.extract, url |-> outcome.url]>>
     ELSE <<>>)
    \o <<[source |-> DATA_SOURCES.dataGov, title |-> "US Geospatial Datasets",
          summary |-> "Access comprehensive geological and geospatial datasets from US government agencies, including mineral surveys, geological formations, and environmental data.",
          url |-> DATA_SOURCES.dataGov.url]>>

\* sources.map(source => `${source.source.name}: ${source.summary}`).join('\n\n')
ContextOf(sources) ==
    Join([i \in DOMAIN sources |->
            sources[i].source.name \o ": "
                \o (IF sources[i].summary = Undefined THEN "undefined" ELSE sources[i].summary)],
         "\n\n")

generateGeologicalResponse(prompt, context) ==
    LET lowerPrompt == ToLowerCase(prompt)
    IN  IF Contains(lowerPrompt, "igneous")
        THEN "Igneous rocks form from the cooling and solidification of magma or lava. Examples include granite (intrusive) and basalt (extrusive). These rocks are characterized by their crystalline structure and mineral composition."
        ELSE IF Contains(lowerPrompt, "sedimentary")
        THEN "Sedimentary rocks form from the accumulation and cementation of sediments. Common types include sandstone, limestone, and shale. They often contain fossils and show layered structures called strata."
        ELSE IF Contains(lowerPrompt, "metamorphic")
        THEN "Metamorphic rocks form when existing rocks are subjected to high pressure and temperature. Examples include marble (from limestone) and gneiss (from granite). They show foliation and mineral recrystallization."
        ELSE IF Contains(lowerPrompt, "mineral")
        THEN "Minerals are naturally occurring inorganic substances with specific chemical compositions and crystal structures. They're the building blocks of rocks and can be identified by properties like hardness, color, and luster."
        ELSE "Based on geological knowledge and available data sources, I can help you understand rocks and minerals. "
                \o (IF TruthyString(context) THEN "From the provided sources: " \o context
                    ELSE "I recommend checking the referenced sources for detailed information.")

\* Outcomes of the request to the inference API: a 2xx reply whose body is a
\* list with generated text, with empty text, an empty list, JSON null, or
\* no JSON at all; a non-2xx reply; a network error.
InferenceOutcomes ==
    {[kind |-> "ok", body |-> "text", generated_text |-> "Granite is an intrusive igneous rock."],
     [kind |-> "ok", body |-> "text", generated_text |-> ""],
     [kind |-> "ok", body |-> "empty list"],
     [kind |-> "ok", body |-> "null"],
     [kind |-> "ok", body |-> "unparsable"],
     [kind |-> "non2xx"], [kind |-> "throws"]}

\* The outcome of a call: it returned a text, or it threw.
Returned(text) == [thrown |-> FALSE, text |-> text]

Thrown == [thrown |-> TRUE, text |-> ""]

\* generateGeologicalResponse(prompt, context) with prompt as it came from the
\* body: prompt.toLowerCase() throws unless prompt is a string.
LocalResponse(prompt, context) ==
    IF prompt.type = "string" THEN Returned(generateGeologicalResponse(prompt.text, context))
    ELSE Thrown

\* Mutant: generated text is returned as it came, the empty one too.
callHuggingFaceAPI_NoFallback(prompt, context, hfToken, inference) ==
    IF ~hfToken THEN Thrown
    ELSE IF inference.kind = "throws" THEN Thrown
    ELSE IF inference.kind = "non2xx" THEN LocalResponse(prompt, context)
    ELSE IF inference.body \in {"unparsable", "null"} THEN Thrown
    ELSE IF inference.body = "text" THEN Returned(inference.generated_text)
    ELSE LocalResponse(prompt, context)

callHuggingFaceAPI(prompt, context, hfToken, inference) ==
    IF ~hfToken THEN Thrown
    ELSE IF inference.kind = "throws" THEN Thrown
    ELSE IF inference.kind = "non2xx" THEN LocalResponse(prompt, context)
    ELSE IF inference.body \in {"unparsable", "null"} THEN Thrown
    ELSE IF inference.body = "text" /\ TruthyString(inference.generated_text)
         THEN Returned(inference.generated_text)
         ELSE LocalResponse(prompt, context)

\* JSON.stringify of a source: its undefined fields are dropped.
SourceJson(src) ==
    [f \in {g \in DOMAIN src : g = "source" \/ src[g] # Undefined} |-> src[f]]

fallbackResponse(now) ==
    [message |-> "I'm here to help with geological questions! I can provide information about rocks, minerals, formations, and geological processes. What would you like to know?",
     sources |-> <<[source |-> DATA_SOURCES.dataGov, title |-> "US Geological Datasets",
                    summary |-> "Comprehensive geological and geospatial data from US government sources",
                    url |-> DATA_SOURCES.dataGov.url]>>,
     timestamp |-> now,
     rockContext |-> Null]

serveRockChatbot(req, wikiOutcome, hfToken, inference, now) ==
    IF req.method = "OPTIONS" THEN [status |-> 200, body |-> Null]
    ELSE IF ReadingBodyThrows(req) THEN [status |-> 200, body |-> fallbackResponse(now)]
    ELSE LET message == JsField(req, "message")
             rock == JsField(req, "rockData")
             sources == fetchGeologicalData(JsString(message), wikiOutcome)
             aiResponse == callHuggingFaceAPI(message, ContextOf(sources), hfToken, inference)
         IN  IF aiResponse.thrown THEN [status |-> 200, body |-> fallbackResponse(now)]
             ELSE [status |-> 200,
                   body |-> [message |-> aiResponse.text,
                             sources |-> [i \in DOMAIN sources |-> SourceJson(sources[i])],
                             timestamp |-> now,
                             rockContext |-> IF JsTruthy(rock) THEN rock.text ELSE Null]]

ChatbotMessages ==
    {Js("string", m) : m \in {"", "What is an igneous rock?", "Which MINERAL is this?",
                              "How hard is granite?", "sedimentary or metamorphic"}}
    \cup {Js("number", "5")}

RockChatbotBodies ==
    {[method |-> "OPTIONS", parse |-> "unparsable"]}
    \cup [method : {"POST"}, parse : {"unparsable", "null"}]
    \cup [method : {"POST"}, parse : {"object"},
          fields : {<<>>} \cup [message : ChatbotMessages]
                          \cup [message : ChatbotMessages,
                                rockData : {Js("object", "{\"name\":\"Granite\"}")}]]

\* Values of new Date().toISOString().
Timestamps == {"2025-01-01T00:00:00.000Z", "2025-01-01T00:00:01.000Z"}

InitChatbot ==
    /\ PipelineOff
    /\ UiOff
    /\ ChatIdle
    /\ httpPc = "received"
    /\ httpBody \in RockChatbotBodies
    /\ upstream = None
    /\ lookups = None
    /\ httpResponse = None
    /\ calls = <<>>

\* One run of the handler.  upstream records the token and the outcomes of
\* the requests that were sent.
ServeRockChatbot ==
    /\ httpPc = "received"
    /\ \E w \in ChatbotWikiOutcomes, hfToken \in BOOLEAN, inference \in InferenceOutcomes,
          now \in Timestamps :
          LET reads == httpBody.method # "OPTIONS" /\ ~ReadingBodyThrows(httpBody)
          IN  /\ upstream' = [wiki |-> IF reads THEN w ELSE NotSent,
                              hfToken |-> hfToken,
                              inference |-> IF reads /\ hfToken THEN inference ELSE NotSent]
              /\ httpResponse' = serveRockChatbot(httpBody, w, hfToken, inference, now)
    /\ httpPc' = "responded"
    /\ UNCHANGED <<httpBody, lookups, calls>>
    /\ UNCHANGED pipelineVars
    /\ UNCHANGED chatVars
    /\ UNCHANGED uiVars

NextChatbot == ServeRockChatbot

SpecChatbot == InitChatbot /\ [][NextChatbot]_vars

\* Something failed inside the handler's try block: the body could not be
\* read, the API token is missing, the request to the inference API threw,
\* its 2xx reply could not be read, or it delivered no text for a message
\* that is not a string.
InternalFailure ==
    \/ ReadingBodyThrows(httpBody)
    \/ ~upstream.hfToken
    \/ upstream.inference.kind = "throws"
    \/ upstream.inference.kind = "ok" /\ upstream.inference.body \in {"unparsable", "null"}
    \/ /\ JsField(httpBody, "message").type # "string"
       /\ upstream.inference \notin
              {o \in InferenceOutcomes : o.kind = "ok" /\ o.body = "text" /\ o.generated_text # ""}

\* C18: to every request that is not a preflight the handler replies 200,
\* whatever the outcomes of the Wikipedia lookup and of the language-model
\* call; the reply has a non-empty message, a non-empty list of sources and
\* a timestamp, and on a failure inside the handler the message (and the
\* one source) is the canned one.
C18_AlwaysAnswers ==
    (Responded /\ NotPreflight) =>
        /\ httpResponse.status = 200
        /\ DOMAIN httpResponse.body = {"message", "sources", "timestamp", "rockContext"}
        /\ Len(httpResponse.body.message) > 0
        /\ Len(httpResponse.body.sources) > 0
        /\ httpResponse.body.timestamp \in Timestamps
        /\ InternalFailure =>
              /\ httpResponse.body.message = fallbackResponse(httpResponse.body.timestamp).message
              /\ Len(httpResponse.body.sources) = 1
              /\ httpResponse.body.sources[1].title = "US Geological Datasets"

C18_Witness ==
    /\ Responded
    /\ NotPreflight
    /\ ~ReadingBodyThrows(httpBody)
    /\ upstream.wiki.kind = "throws"
    /\ upstream.hfToken
    /\ upstream.inference.kind = "throws"
    /\ httpResponse.status = 200
    /\ Contains(httpResponse.body.message, "I'm here to help with geological questions!")

(***************************************************************************)
(* Properties of the chat front-end.                                       *)
(***************************************************************************)

\* The call of geological-data resolved with an error, or rejected.
InvokeHasFailed == invoke.kind \in {"error", "throws"}

\* C19: every question gets a non-empty answer, whatever the outcome of the
\* geological-data call; when the call fails the answer is the one of the
\* local generator, which puts the rock's own formation, locations,
\* composition or uses into the template the question selects.
C19_LocalAnswerOnFailure ==
    chatPc = "answered" =>
        /\ Len(answer) > 0
        /\ InvokeHasFailed =>
              /\ answer = simulateGeologistResponse(rockData, question)
              /\ Contains(answer, rockData.name)
              /\ question = "How was this rock formed?" =>
                    /\ Contains(answer, rockData.formation)
                    /\ Contains(answer, Join(Slice(rockData.composition, 3), ", "))
              /\ question = "Where can I find more specimens?" =>
                    Contains(answer, "in these locations: "
                                \o Join(Slice(rockData.locations, 3), ", ") \o ".")
              /\ question = "Which minerals are in it?" =>
                    Contains(answer, "includes: " \o Join(rockData.composition, ", ") \o ".")
              /\ question = "What is it used for?" =>
                    Contains(answer, "applications: " \o Join(rockData.uses, "; ") \o ".")

C19_Witness ==
    /\ chatPc = "answered"
    /\ invoke.kind = "throws"
    /\ rockData = ClientFallbackRock
    /\ question = "Which minerals are in it?"
    /\ Contains(answer, "includes: Quartz, Feldspar, Mica.")

(***************************************************************************)
(* Concurrent identify-rock requests.  Each call of the handler has its    *)
(* own activation (description, characteristics, identification, ...);    *)
(* the calls advance from one await or call to the next in any order.      *)
(***************************************************************************)

\* Number of requests in flight together.
NumRequests == 2

ConcurrentBodies ==
    {[method |-> "POST", parse |-> "unparsable"]}
    \cup [method : {"POST"}, parse : {"object"},
          fields : {<<>>} \cup [description : {Js("string", d) :
                                   d \in {"glassy shiny volcanic rock",
                                          "porous light volcanic foam"}}]]

\* Outcomes of the summary request of a call: a full reply, a non-2xx reply,
\* a network error.
ConcurrentOutcomes ==
    {o \in WikiOutcomes :
        o.kind = "ok" => (o.extract \in WikiExtracts /\ o.thumbnail \in WikiThumbnails)}

NewCall(body) ==
    [pc |-> "received", body |-> body, args |-> None, characteristics |-> None,
     identification |-> None, wiki |-> None, response |-> None]

InitConcurrent ==
    /\ PipelineOff
    /\ UiOff
    /\ ChatIdle
    /\ httpPc = "off"
    /\ httpBody = None
    /\ upstream = None
    /\ lookups = None
    /\ httpResponse = None
    /\ calls \in [1..NumRequests -> {NewCall(b) : b \in ConcurrentBodies}]

\* Mutant: a variable at module level, holding what the first call stored.
Local_ModuleLevel(cs, i, name) ==
    IF cs[1].pc = cs[i].pc THEN cs[1][name] ELSE cs[i][name]

\* A local variable of call i.
Local(cs, i, name) == cs[i][name]

\* A step of a call changes nothing but the calls.
OnlyCalls ==
    /\ UNCHANGED <<httpPc, httpBody, upstream, lookups, httpResponse>>
    /\ UNCHANGED pipelineVars
    /\ UNCHANGED chatVars
    /\ UNCHANGED uiVars

\* const { description, imageAnalysis } = await req.json()
CallRead(i) ==
    /\ calls[i].pc = "received"
    /\ calls' = IF ReadingBodyThrows(calls[i].body)
                THEN [calls EXCEPT ![i].pc = "responded", ![i].response = IdentifyRockError]
                ELSE [calls EXCEPT ![i].pc = "read", ![i].args = ArgumentsOf(calls[i].body)]
    /\ OnlyCalls

\* identifyRock: parseCharacteristics(description, imageAnalysis)
CallParse(i) ==
    /\ calls[i].pc = "read"
    /\ calls' = IF ToLowerCaseThrows(JsField(calls[i].body, "description"))
                THEN [calls EXCEPT ![i].pc = "responded", ![i].response = IdentifyRockError]
                ELSE [calls EXCEPT ![i].pc = "parsed",
                         ![i].characteristics = parseCharacteristics(Local(calls, i, "args"))]
    /\ OnlyCalls

\* identifyRock: classifyRock(characteristics)
CallClassify(i) ==
    /\ calls[i].pc = "parsed"
    /\ calls' = [calls EXCEPT ![i].pc = "classified",
                    ![i].identification = classifyRock(Local(calls, i, "characteristics"))]
    /\ OnlyCalls

\* enhanceRockData(rockData), with its summary request, and the Response.
CallEnhance(i) ==
    /\ calls[i].pc = "classified"
    /\ \E outcome \in ConcurrentOutcomes :
          calls' = [calls EXCEPT ![i].pc = "responded", ![i].wiki = outcome,
                       ![i].response =
                          [status |-> 200,
                           body |-> JsonRoundTrip(enhanceRockData(
                                        Local(calls, i, "identification"), outcome))]]
    /\ OnlyCalls

NextConcurrent ==
    \E i \in DOMAIN calls : CallRead(i) \/ CallParse(i) \/ CallClassify(i) \/ CallEnhance(i)

SpecConcurrent == InitConcurrent /\ [][NextConcurrent]_vars

\* C20: whatever the other calls have done in between, a call that has
\* classified holds the Identification of its own description, and a call
\* that has responded sent the Response the handler gives to its body and
\* its own upstream reply when run alone.
C20_ResponseAsIfAlone ==
    \A i \in DOMAIN calls :
        /\ calls[i].pc = "classified" =>
              calls[i].identification
                  = classifyRock(parseCharacteristics(ArgumentsOf(calls[i].body)))
        /\ calls[i].pc = "responded" =>
              calls[i].response = serveIdentifyRock(calls[i].body, calls[i].wiki)

C20_Witness ==
    /\ \A i \in DOMAIN calls : calls[i].pc = "responded"
    /\ calls[1].response.status = 200
    /\ calls[1].response.body.name = "Obsidian"
    /\ calls[1].wiki.kind = "ok"
    /\ calls[2].response.status = 200
    /\ calls[2].response.body.name = "Pumice"
    /\ calls[2].wiki.kind = "throws"
    /\ calls[2].response.body.funFacts = <<>>

(***************************************************************************)
(* Properties of the rock-name rules of classifyRock.                      *)
(***************************************************************************)

\* Some keyword is itself one of the rock names or synonyms of Tier 1.
ExactNameKeyword(keywords) ==
    \E i \in DOMAIN NameOrder : NameOrder[i].words \cap Range(keywords) # {}

\* The result of the rules that follow the rock-name rules.
FromCharacteristicRules(c) ==
    Head(GlassyRule(c) \o VesicularRule(c) \o CoarseRule(c) \o FineDarkRule(c)
         \o LayeredRule(c, KeywordString(c)) \o SoftLightRule(c)
         \o SandGrainRule(c, KeywordString(c)) \o FoliatedRule(c, KeywordString(c))
         \o CrystallineRule(c)
         \o DarkFallback(c) \o LightFallback(c) \o SoftFallback(c) \o <<FinalFallback>>)

\* C21: a rock-name rule fires only when some keyword of the description is
\* itself the name or synonym; otherwise (a keyword such as 'sandy' or
\* 'sublime' only containing one) the result is that of the characteristic
\* rules and the fallbacks.
C21_Tier1OnlyOnExactKeyword ==
    (Classified /\ HasDescription(request)
       /\ ~ExactNameKeyword(characteristics.keywords)) =>
        /\ Tier1Rule(KeywordString(characteristics)) = <<>>
        /\ identification = FromCharacteristicRules(characteristics)

\* The checks of Tier 1 that succeed on the keywords.
MentionedNames(keywords) ==
    {i \in DOMAIN NameOrder : Mentions(keywords, NameOrder[i].words)}

SetMin(S) == CHOOSE m \in S : \A x \in S : m <= x

\* C22: when the keywords mention several Tier-1 rocks, the result is the
\* rock checked first in the order granite, basalt, limestone/lime,
\* sandstone/sand, marble, slate, quartzite/quartz, obsidian, pumice, with
\* that rock's Tier-1 confidence, wherever the names stand in the description.
C22_FirstCheckedNameWins ==
    (Classified /\ HasDescription(request)
       /\ Cardinality(MentionedNames(characteristics.keywords)) >= 2) =>
        LET first == NameOrder[SetMin(MentionedNames(characteristics.keywords))]
        IN  /\ identification.name = first.name
            /\ identification.confidence = first.confidence

\* Basalt named before granite in the description: Granite is returned.
C22_Witness ==
    /\ pc = "classified"
    /\ characteristics.keywords = <<"basalt", "granite">>
    /\ identification.name = "Granite"
    /\ identification.confidence = 88

(***************************************************************************)
(* The Index page: RockUpload.handleAnalyze, Index.handleAnalyze and       *)
(* Index.identifyRock with its two function invocations.                   *)
(***************************************************************************)

RECURSIVE TrimEndAt(_, _)
TrimEndAt(t, j) ==
    IF j >= 1 /\ IsSpace(CharAt(t, j)) THEN TrimEndAt(t, j - 1) ELSE j

\* String.prototype.trim
Trim(t) ==
    LET i == SkipSpaces(t, 1)
        j == TrimEndAt(t, Len(t))
    IN  IF i > j THEN "" ELSE SubSeq(t, i, j)

\* What the user typed into the description box, and whether a file is selected.
PageDescriptions ==
    {"", "   ", "glassy shiny volcanic rock", " basalt ", "schist", "soft white banded"}

\* URL.createObjectURL(image)
ObjectUrl == "blob:rock-photo"

\* requestData: the trimmed description, and the placeholder image analysis
\* when a file is selected.
requestData(image, description) ==
    [method |-> "POST", parse |-> "object",
     fields |-> IF image
                THEN [description |-> Js("string", Trim(description)),
                      imageAnalysis |-> [type |-> "object", text |-> "{...}",
                                         value |-> [colors |-> <<"varies">>, texture |-> "unknown",
                                                    patterns |-> <<"varies">>]]]
                ELSE [description |-> Js("string", Trim(description))]]

\* Outcomes of the summary request made on behalf of the page's invocation.
PageWikiOutcomes ==
    {[kind |-> "ok", extract |-> e, thumbnail |-> t] : e \in WikiExtracts,
                                                     t \in WikiThumbnails \cup {Undefined}}
    \cup {[kind |-> "non2xx"]}

\* What supabase.functions.invoke('identify-rock') resolves with: the parsed
\* body of a 2xx reply as data, or an error (non-2xx reply, network failure).
IdentifyRockReplies(body) ==
    {IF serveIdentifyRock(body, o).status = 200
     THEN [kind |-> "ok", data |-> serveIdentifyRock(body, o).body]
     ELSE [kind |-> "error"] : o \in PageWikiOutcomes}
    \cup {[kind |-> "error"]}

\* What supabase.functions.invoke('geological-data') resolves with.
GeologicalDataReplies(data) ==
    {[kind |-> "ok",
      data |-> JsonRoundTrip(geologicalDataResponse(
                  [rockName |-> data.name, rockType |-> data.type,
                   query |-> "scientific_data"], up))] : up \in Upstreams}
    \cup {[kind |-> "error"]}

\* enhancedData?.scientificData?.image
ScientificDataImage(enhancedReply) ==
    IF enhancedReply.kind = "ok" /\ "scientificData" \in DOMAIN enhancedReply.data
    THEN Get(enhancedReply.data.scientificData, "image")
    ELSE Undefined

\* { ...data, image: image ? URL.createObjectURL(image) : enhancedData?.scientificData?.image }
buildRockData(data, image, enhancedReply) ==
    [image |-> IF image THEN ObjectUrl ELSE ScientificDataImage(enhancedReply)] @@ data

InitPage ==
    /\ PipelineOff
    /\ ChatIdle
    /\ HttpIdle
    /\ TranscriptOff
    /\ appState = "upload"
    /\ currentRock = None
    /\ isAnalyzing = FALSE
    /\ analysis = None

OnlyPage == UNCHANGED <<pipelineVars, chatVars, httpVars, transcriptVars>>

\* The Analyze button: enabled with a file or a non-blank description and no
\* analysis running.  Runs handleAnalyze and identifyRock up to the first
\* await; reply is what the invocation sent there is going to resolve with.
HandleAnalyze ==
    /\ appState = "upload"
    /\ ~isAnalyzing
    /\ \E image \in BOOLEAN, description \in PageDescriptions :
          /\ image \/ Trim(description) # ""
          /\ \E reply \in IdentifyRockReplies(requestData(image, description)) :
                analysis' = [at |-> "identify-rock", image |-> image,
                             body |-> requestData(image, description), reply |-> reply]
    /\ isAnalyzing' = TRUE
    /\ UNCHANGED <<appState, currentRock>>
    /\ OnlyPage

\* Mutant: the catch block of identifyRock throws the error on.
identifyRockCatch_Rethrows == [thrown |-> TRUE, rock |-> None]

\* The catch block of identifyRock: the substitute rock is returned.
identifyRockCatch == [thrown |-> FALSE, rock |-> ClientFallbackRock]

\* The rest of handleAnalyze once identifyRock has settled: the rock is shown
\* (or, identifyRock having thrown, the error is logged), and finally
\* isAnalyzing is reset.
AnalysisEnds(result) ==
    /\ currentRock' = IF result.thrown THEN currentRock ELSE result.rock
    /\ appState' = IF result.thrown THEN appState ELSE "results"
    /\ isAnalyzing' = FALSE

\* The identify-rock invocation resolves.  With an error identifyRock throws
\* it and its catch block decides; otherwise the geological-data invocation
\* is sent.
IdentifyRockSettles ==
    /\ analysis # None
    /\ analysis.at = "identify-rock"
    /\ IF analysis.reply.kind = "error"
       THEN /\ analysis' = [at |-> "done", image |-> analysis.image,
                            identify |-> analysis.reply]
            /\ AnalysisEnds(identifyRockCatch)
       ELSE /\ analysis' = [at |-> "geological-data", image |-> analysis.image,
                            identify |-> analysis.reply]
            /\ UNCHANGED <<appState, currentRock, isAnalyzing>>
    /\ OnlyPage

\* The geological-data invocation resolves; an error is only logged.
GeologicalDataSettles ==
    /\ analysis # None
    /\ analysis.at = "geological-data"
    /\ \E reply \in GeologicalDataReplies(analysis.identify.data) :
          /\ analysis' = [at |-> "done", image |-> analysis.image,
                          identify |-> analysis.identify, enhanced |-> reply]
          /\ AnalysisEnds([thrown |-> FALSE,
                           rock |-> buildRockData(analysis.identify.data, analysis.image, reply)])
    /\ OnlyPage

HandleBackToUpload ==
    /\ appState = "results"
    /\ currentRock # None
    /\ appState' = "upload"
    /\ currentRock' = None
    /\ analysis' = None
    /\ UNCHANGED isAnalyzing
    /\ OnlyPage

HandleOpenChat ==
    /\ appState = "results"
    /\ currentRock # None
    /\ appState' = "chat"
    /\ UNCHANGED <<currentRock, isAnalyzing, analysis>>
    /\ OnlyPage

HandleBackToResults ==
    /\ appState = "chat"
    /\ appState' = "results"
    /\ UNCHANGED <<currentRock, isAnalyzing, analysis>>
    /\ OnlyPage

NextPage ==
    \/ HandleAnalyze
    \/ IdentifyRockSettles
    \/ GeologicalDataSettles
    \/ HandleBackToUpload
    \/ HandleOpenChat
    \/ HandleBackToResults

SpecPage == InitPage /\ [][NextPage]_vars

\* The image URLs the two invocations of a finished analysis delivered.
FetchedImageUrls ==
    ({Get(analysis.identify.data, "image")}
     \cup (IF analysis.enhanced.kind = "ok"
           THEN {Get(analysis.enhanced.data, "image")} ELSE {}))
        \ {Undefined, Null}

\* C23: no file uploaded and an image URL fetched (the thumbnail of the
\* identify-rock reply or the image of the scientific_data reply): the
\* RockData shown carries that URL.
C23_FetchedImageShown ==
    (/\ analysis # None
     /\ analysis.at = "done"
     /\ ~analysis.image
     /\ "enhanced" \in DOMAIN analysis
     /\ FetchedImageUrls # {}) =>
        Get(currentRock, "image") \in FetchedImageUrls

(***************************************************************************)
(* Properties of fetchScientificData.                                      *)
(***************************************************************************)

\* C24: whenever the summary request was answered with an extract, the
\* summary of the scientific data is that extract, whatever the outcome of
\* the related-articles request; a failed related-articles request leaves
\* relatedTopics empty.
C24_SummarySurvivesRelatedFailure ==
    (/\ Responded
     /\ NotPreflight
     /\ httpResponse.status = 200
     /\ QueryKind(httpBody) = "scientific_data"
     /\ upstream.summary.kind = "ok"
     /\ upstream.summary.extract \in WikiExtracts) =>
        /\ httpResponse.body.summary = upstream.summary.extract
        /\ Failed(upstream.related) => httpResponse.body.relatedTopics = <<>>

(***************************************************************************)
(* Frame properties of parseCharacteristics.                               *)
(***************************************************************************)

\* The words that are alternatives of the patterns of a rule list.
WordsOf(rules) ==
    UNION {{alt[1] : alt \in {a \in rules[i].alts : Len(a) = 1}} : i \in DOMAIN rules}

ExtractorWords == UNION {WordsOf(RulesOf(dim)) : dim \in Dimensions}

ColourWords == WordsOf(ColorRules)

IsColourWord(k) == k \in ColourWords

\* C25: for a description made of the extractor's vocabulary words, the
\* colour is the one extracted from its colour words alone; the texture,
\* hardness, luster and crystal-size words in it ('layered', 'banded',
\* 'soft', ...) do not change it.
C25_ColourFromColourWordsOnly ==
    (/\ Parsed
     /\ HasDescription(request)
     /\ Range(characteristics.keywords) \subseteq ExtractorWords) =>
        characteristics.color =
            ApplyRules(Join(SelectSeq(characteristics.keywords, IsColourWord), " "), ColorRules)

(***************************************************************************)
(* enhanceRockData statement by statement: the summary request of          *)
(* fetchWikipediaData is sent, settles, and the function returns.          *)
(* upstream is the list of the URLs requested so far.                      *)
(***************************************************************************)

RECURSIVE EncodeFrom(_, _)
EncodeFrom(t, i) ==
    IF i > Len(t) THEN ""
    ELSE (IF CharAt(t, i) = " " THEN "%20" ELSE CharAt(t, i)) \o EncodeFrom(t, i + 1)

\* encodeURIComponent on rock names: letters are kept, a space becomes %20.
EncodeURIComponent(t) == EncodeFrom(t, 1)

WIKIPEDIA_API_BASE_URL == "https://en.wikipedia.org/api/rest_v1"

SummaryUrl(rockName) ==
    WIKIPEDIA_API_BASE_URL \o "/page/summary/" \o EncodeURIComponent(rockName)

\* Mutant: a failed summary request is sent again.
afterSummaryRequest_Retry(outcome) ==
    IF outcome.kind = "ok" THEN "return data" ELSE "classified"

\* Where fetchWikipediaData continues when the awaited request has settled:
\* at the return with the reply's data for a 2xx reply, and otherwise (non-2xx
\* reply, or the catch block) at the return of the empty result.
afterSummaryRequest(outcome) ==
    IF outcome.kind = "ok" THEN "return data" ELSE "return empty"

InitRequests ==
    /\ pc = "classified"
    /\ request = None
    /\ characteristics = None
    /\ identification \in Identifications
    /\ wiki = None
    /\ enhanced = None
    /\ ChatIdle
    /\ UiOff
    /\ httpPc = "off"
    /\ httpBody = None
    /\ upstream = <<>>
    /\ lookups = None
    /\ httpResponse = None
    /\ calls = <<>>

OnlyEnrichment ==
    UNCHANGED <<request, characteristics, identification, chatVars, uiVars,
                httpPc, httpBody, lookups, httpResponse, calls>>

\* enhanceRockData calls fetchWikipediaData, which sends its request.
SendSummaryRequest ==
    /\ pc = "classified"
    /\ upstream' = Append(upstream, SummaryUrl(identification.name))
    /\ pc' = "awaiting"
    /\ UNCHANGED <<wiki, enhanced>>
    /\ OnlyEnrichment

\* The request settles: 2xx, non-2xx, or rejected.
SummarySettles ==
    /\ pc = "awaiting"
    /\ \E outcome \in WikiOutcomes :
          /\ wiki' = outcome
          /\ pc' = afterSummaryRequest(outcome)
    /\ UNCHANGED <<upstream, enhanced>>
    /\ OnlyEnrichment

\* fetchWikipediaData returns, fetchLocationData returns (it sends nothing),
\* and enhanceRockData returns the EnrichedRock.
ReturnEnrichedRock ==
    /\ pc \in {"return data", "return empty"}
    /\ enhanced' = enhanceRockData(identification, wiki)
    /\ pc' = "enhanced"
    /\ UNCHANGED <<upstream, wiki>>
    /\ OnlyEnrichment

NextRequests == SendSummaryRequest \/ SummarySettles \/ ReturnEnrichedRock

SpecRequests == InitRequests /\ [][NextRequests]_vars

\* C26: one run of the enrichment stage sends exactly one request, the one
\* for the summary of the rock's name, whether it succeeds or fails; after a
\* failure nothing more is sent before the EnrichedRock is returned.
C26_ExactlyOneSummaryRequest ==
    /\ Len(upstream) <= 1
    /\ pc \in {"awaiting", "return data", "return empty", "enhanced"} =>
          upstream = <<SummaryUrl(identification.name)>>
    /\ pc = "return empty" => wiki.kind \in {"non2xx", "throws"}

\* The request was rejected and the EnrichedRock has been returned.
C26_Witness ==
    /\ pc = "enhanced"
    /\ wiki.kind = "throws"
    /\ Len(upstream) = 1
    /\ enhanced.funFacts = <<>>

(***************************************************************************)
(* Confidence bands of classifyRock.                                       *)
(***************************************************************************)

\* The tier of the rule that returns for c: 1 a rock-name rule, 2 a
\* characteristic rule, 3 a colour or hardness fallback, 4 the final fallback.
ProducingTier(c) ==
    LET ks == KeywordString(c)
    IN  IF Tier1Rule(ks) # <<>> THEN 1
        ELSE IF GlassyRule(c) \o VesicularRule(c) \o CoarseRule(c) \o FineDarkRule(c)
                \o LayeredRule(c, ks) \o SoftLightRule(c) \o SandGrainRule(c, ks)
                \o FoliatedRule(c, ks) \o CrystallineRule(c) # <<>> THEN 2
        ELSE IF DarkFallback(c) \o LightFallback(c) \o SoftFallback(c) # <<>> THEN 3
        ELSE 4

ConfidenceBand(tier) ==
    CASE tier = 1 -> 80..90
      [] tier = 2 -> 65..85
      [] tier = 3 -> 55..65
      [] tier = 4 -> {55}

\* The results of the branches of each tier: name, type and confidence.
BranchResults(tier) ==
    CASE tier = 1 ->
            {<<"Granite", "igneous", 88>>, <<"Basalt", "igneous", 85>>,
             <<"Limestone", "sedimentary", 82>>, <<"Sandstone", "sedimentary", 80>>,
             <<"Marble", "metamorphic", 85>>, <<"Slate", "metamorphic", 83>>,
             <<"Quartzite", "metamorphic", 81>>, <<"Obsidian", "igneous", 90>>,
             <<"Pumice", "igneous", 87>>}
      [] tier = 2 ->
            {<<"Obsidian", "igneous", 85>>, <<"Pumice", "igneous", 80>>,
             <<"Scoria", "igneous", 75>>, <<"Granite", "igneous", 82>>,
             <<"Gabbro", "igneous", 78>>, <<"Basalt", "igneous", 78>>,
             <<"Shale", "sedimentary", 75>>, <<"Sandstone", "sedimentary", 72>>,
             <<"Limestone", "sedimentary", 75>>, <<"Slate", "metamorphic", 70>>,
             <<"Schist", "metamorphic", 68>>, <<"Marble", "metamorphic", 76>>,
             <<"Quartzite", "metamorphic", 74>>}
      [] tier = 3 ->
            {<<"Basalt", "igneous", 65>>, <<"Granite", "igneous", 65>>,
             <<"Limestone", "sedimentary", 60>>}
      [] tier = 4 -> {<<"Granite", "igneous", 55>>}

\* The formation text that goes with a rock name in the first three tiers.
FormationOf(name) ==
    CASE name = "Granite" -> GraniteFormation [] name = "Basalt" -> BasaltFormation
      [] name = "Limestone" -> LimestoneFormation [] name = "Sandstone" -> SandstoneFormation
      [] name = "Marble" -> MarbleFormation [] name = "Slate" -> SlateFormation
      [] name = "Quartzite" -> QuartziteFormation [] name = "Obsidian" -> ObsidianFormation
      [] name = "Pumice" -> PumiceFormation [] name = "Scoria" -> ScoriaFormation
      [] name = "Gabbro" -> GabbroFormation [] name = "Shale" -> ShaleFormation
      [] name = "Schist" -> SchistFormation

\* C27: the confidence lies in the band of the tier of the rule that
\* returned (80..90, 65..85, 55..65, exactly 55), and name, type, confidence
\* and formation text are the fixed literals of a branch of that tier.
C27_ConfidenceBands ==
    Classified =>
        LET tier == ProducingTier(characteristics)
        IN  /\ identification.confidence \in ConfidenceBand(tier)
            /\ <<identification.name, identification.type, identification.confidence>>
                  \in BranchResults(tier)
            /\ identification.formation =
                  IF tier = 4 THEN InconclusiveFormation ELSE FormationOf(identification.name)

\* A hard, light rock with a keyword no rule looks for: the light fallback of
\* the third tier decides.
C27_Witness ==
    /\ pc = "classified"
    /\ ProducingTier(characteristics) = 3
    /\ characteristics.hardness = "hard"
    /\ characteristics.color = "light"
    /\ identification.name = "Granite"
    /\ identification.confidence = 65

(***************************************************************************)
(* identifyRock on requests that carry image-analysis hints.               *)
(***************************************************************************)

\* Image analyses with hints that name characteristics of their own.
HintAnalyses ==
    [colors : {<<>>, <<"dark">>, <<"light", "gray">>},
     texture : {"unknown", "glassy", "coarse"},
     patterns : {<<>>, <<"layered">>}]

HintRequests ==
    LET descriptions == ExampleDescriptions \cup {""}
    IN  [description : descriptions]
        \cup [description : descriptions, imageAnalysis : HintAnalyses]
        \cup [imageAnalysis : HintAnalyses]

InitHints ==
    /\ pc = "start"
    /\ request \in HintRequests
    /\ characteristics = None
    /\ identification = None
    /\ wiki = None
    /\ enhanced = None
    /\ ChatIdle
    /\ HttpIdle
    /\ UiOff

NextHints == ParseCharacteristics \/ ClassifyRock

SpecHints == InitHints /\ [][NextHints]_vars

\* The request without its image analysis.
WithoutImageAnalysis(req) == [f \in DOMAIN req \ {"imageAnalysis"} |-> req[f]]

\* C28: the Identification of a request with image-analysis hints is the
\* Identification of the same request without them; of the hints only the
\* colours appear in the characteristics, as dominantColors.
C28_HintsDoNotInfluence ==
    /\ pc \in {"parsed", "classified"} =>
          LET plain == parseCharacteristics(WithoutImageAnalysis(request))
          IN  /\ \A f \in DOMAIN plain : characteristics[f] = plain[f]
              /\ DOMAIN characteristics \ DOMAIN plain \subseteq {"dominantColors"}
              /\ "dominantColors" \in DOMAIN characteristics =>
                    characteristics.dominantColors = request.imageAnalysis.colors
    /\ Classified =>
          identification = classifyRock(parseCharacteristics(WithoutImageAnalysis(request)))

\* A description without a texture word, sent with hints of a glassy, dark rock.
C28_Witness ==
    /\ pc = "classified"
    /\ request = [description |-> "flaky green",
                  imageAnalysis |-> [colors |-> <<"dark">>, texture |-> "glassy",
                                     patterns |-> <<"layered">>]]
    /\ characteristics.dominantColors = <<"dark">>
    /\ identification.name = "Schist"

\* The invocations of a running analysis settle.
SpecPageLive ==
    SpecPage /\ WF_vars(IdentifyRockSettles) /\ WF_vars(GeologicalDataSettles)

AnalysisDone == analysis # None /\ analysis.at = "done"

ShowsResults == ~isAnalyzing /\ appState = "results" /\ currentRock # None

\* C29: every analysis started ends with isAnalyzing false, the results view
\* and a rock to show; after an error of the identify-rock invocation the
\* rock is the substitute Granite, igneous, 50; after an error of the
\* geological-data invocation alone it is the rock identify-rock returned.
C29_AnalysisEndsWithResults ==
    /\ isAnalyzing ~> ShowsResults
    /\ [](AnalysisDone =>
            /\ currentRock # None
            /\ analysis.identify.kind = "error" =>
                  /\ currentRock.name = "Granite"
                  /\ currentRock.type = "igneous"
                  /\ currentRock.confidence = 50
            /\ (analysis.identify.kind = "ok" /\ analysis.enhanced.kind = "error") =>
                  \A f \in DOMAIN analysis.identify.data \ {"image"} :
                      currentRock[f] = analysis.identify.data[f])

\* The identify-rock invocation reported an error and the substitute is shown.
C29_Witness ==
    /\ AnalysisDone
    /\ analysis.identify.kind = "error"
    /\ ShowsResults
    /\ currentRock = ClientFallbackRock


(***************************************************************************)
(* The transcript of the chat components: GeologistChat and RockChatbot.   *)
(* A message is [type, content]; ids and timestamps are not modelled.      *)
(***************************************************************************)

\* Most messages a transcript grows to, the greeting included.
MaxMessages == 5

\* The first element of useState<Message[]>.
Greeting(component) ==
    IF component = "GeologistChat"
    THEN [type |-> "geologist",
          content |-> "Hello! I'm your geological expert. I see you've identified "
                      \o rockData.name \o ", a fascinating " \o rockData.type
                      \o " rock! I have access to comprehensive geological databases and can answer any questions about this specimen or geology in general. What would you like to know?"]
    ELSE [type |-> "bot",
          content |-> "Hello! I'm your geological expert assistant powered by advanced AI. I can help you identify rocks, explain geological processes, and provide information from multiple scientific databases. What would you like to know about geology?"]

\* The content of the message appended by the catch block of handleSendMessage.
Apology(component) ==
    IF component = "GeologistChat"
    THEN "I apologize, but I'm having trouble accessing geological databases right now. Please try again in a moment."
    ELSE "I apologize, but I'm having trouble connecting to my knowledge base right now. However, I can still help with basic geological questions! Try asking about rock types, mineral properties, or geological formations."

\* The type of the messages that are not the user's.
ReplyType(component) == IF component = "GeologistChat" THEN "geologist" ELSE "bot"

\* Texts typed into the input field.
TypedTexts == {"", "   ", "How hard is granite?", " Which MINERAL is this? "}

suggestedQuestions(component) ==
    IF component = "GeologistChat"
    THEN {"How was this rock formed?", "How old might this specimen be?"}
    ELSE {"How are igneous rocks formed?", "Tell me about sedimentary rock layers"}

\* What the awaited call of handleSendMessage settles with.  GeologistChat
\* awaits getGeologistResponse, which catches its own failures; RockChatbot
\* awaits the rock-chatbot invocation and throws its error.
GeologistReplies(text) ==
    {[kind |-> "ok", text |-> getGeologistResponse(rockData, text, inv)] :
        inv \in {[kind |-> "error"], [kind |-> "throws"]}
                \cup {[kind |-> "ok",
                       data |-> JsonRoundTrip(geologicalDataResponse(
                                   [rockName |-> rockData.name, rockType |-> rockData.type,
                                    query |-> "scientific_data"], up))] : up \in Upstreams}}

RockChatbotReplies(text) ==
    LET body == [method |-> "POST", parse |-> "object",
                 fields |-> [message |-> Js("string", text),
                             rockData |-> Js("object", "{\"name\":\"Granite\"}")]]
    IN  {[kind |-> "ok", text |-> serveRockChatbot(body, w, hfToken, inference, now).body.message] :
            w \in ChatbotWikiOutcomes, hfToken \in BOOLEAN, inference \in InferenceOutcomes,
            now \in Timestamps}
        \cup {[kind |-> "error"]}

SendReplies(component, text) ==
    IF component = "GeologistChat" THEN GeologistReplies(text) ELSE RockChatbotReplies(text)

\* !currentMessage.trim()
IsBlank(text) == Trim(text) = ""

\* Mutant: the controls stay enabled while a reply is awaited.
InputDisabled_Never == FALSE

\* disabled={isTyping} of the input field; the send button has it too.
InputDisabled == isTyping

InitTranscript ==
    /\ PipelineOff
    /\ HttpIdle
    /\ PageOff
    /\ chatPc = "off"
    /\ rockData = ClientFallbackRock
    /\ question = ""
    /\ invoke = None
    /\ answer = ""
    /\ chatComponent \in {"GeologistChat", "RockChatbot"}
    /\ messages = <<Greeting(chatComponent)>>
    /\ currentMessage = ""
    /\ isTyping = FALSE
    /\ sending = None

OnlyTranscript == UNCHANGED <<pipelineVars, chatVars, httpVars, pageVars>>

\* onChange of the input field.
SetCurrentMessage ==
    /\ ~InputDisabled
    /\ \E text \in TypedTexts : currentMessage' = text
    /\ UNCHANGED <<chatComponent, messages, isTyping, sending>>
    /\ OnlyTranscript

\* A suggestion button, shown while the transcript is only the greeting.
PickSuggestion ==
    /\ Len(messages) = 1
    /\ \E text \in suggestedQuestions(chatComponent) : currentMessage' = text
    /\ UNCHANGED <<chatComponent, messages, isTyping, sending>>
    /\ OnlyTranscript

\* Enter in the input field or the send button: handleSendMessage up to its
\* await.  sending is the running handler: the text it sent and what its
\* awaited call is going to settle with.
HandleSendMessage ==
    /\ ~InputDisabled
    /\ IF IsBlank(currentMessage)
       THEN UNCHANGED transcriptVars
       ELSE /\ Len(messages) + 2 <= MaxMessages
            /\ messages' = Append(messages, [type |-> "user", content |-> currentMessage])
            /\ currentMessage' = ""
            /\ isTyping' = TRUE
            /\ \E reply \in SendReplies(chatComponent, currentMessage) :
                  sending' = [message |-> currentMessage, reply |-> reply]
            /\ UNCHANGED chatComponent
    /\ OnlyTranscript

\* The awaited call settles: the try block appends the answer or the catch
\* block the apology, and finally isTyping is reset.
ReplySettles ==
    /\ sending # None
    /\ messages' = Append(messages,
                     [type |-> ReplyType(chatComponent),
                      content |-> IF sending.reply.kind = "ok" THEN sending.reply.text
                                  ELSE Apology(chatComponent)])
    /\ isTyping' = FALSE
    /\ sending' = None
    /\ UNCHANGED <<chatComponent, currentMessage>>
    /\ OnlyTranscript

NextTranscript ==
    \/ SetCurrentMessage
    \/ PickSuggestion
    \/ HandleSendMessage
    \/ ReplySettles

SpecTranscript == InitTranscript /\ [][NextTranscript]_vars

\* The awaited call of a running handler settles.
SpecTranscriptLive == SpecTranscript /\ WF_vars(ReplySettles)

IsUserMessage(m) == m.type = "user"

LastMessage == messages[Len(messages)]

\* After the greeting the messages are user message, reply, user message, ...
Alternates ==
    /\ Len(messages) >= 1
    /\ ~IsUserMessage(messages[1])
    /\ \A i \in 2..Len(messages) : IsUserMessage(messages[i]) <=> (i % 2 = 0)

\* C30: a send of blank text changes nothing; any other send appends the
\* user's message and sets isTyping; while isTyping the only change of the
\* transcript is one appended reply (the answer or the apology) together
\* with isTyping = false, and it does come; the transcript alternates user
\* message, reply after the greeting.
C30_TranscriptAlternates ==
    /\ [][(~isTyping /\ Trim(currentMessage) = "") =>
              UNCHANGED <<messages, isTyping>>]_transcriptVars
    /\ [][(~isTyping /\ messages' # messages) =>
              /\ messages' = Append(messages, [type |-> "user", content |-> currentMessage])
              /\ Trim(currentMessage) # ""
              /\ isTyping']_transcriptVars
    /\ [][(isTyping /\ (messages' # messages \/ ~isTyping')) =>
              /\ Len(messages') = Len(messages) + 1
              /\ SubSeq(messages', 1, Len(messages)) = messages
              /\ ~IsUserMessage(messages'[Len(messages')])
              /\ ~isTyping']_transcriptVars
    /\ [](Alternates /\ (isTyping <=> IsUserMessage(LastMessage)))
    /\ isTyping ~> ~isTyping

\* Two exchanges, the second one answered with the apology.
C30_Witness ==
    /\ Len(messages) = 5
    /\ ~isTyping
    /\ LastMessage.content = Apology(chatComponent)
    /\ IsUserMessage(messages[4])
    /\ Alternates

====
